---- MODULE Spec2Model ----
(***************************************************************************)
(* A model of the hybrid operations classifier of finreview                *)
(* (src/operations_matcher.py): the four matching layers, the two result   *)
(* caches, the batch suggestions and the learned-pattern table.            *)
(*                                                                         *)
(* Strings are sequences of one-character strings.  A confidence is an     *)
(* exact rational [num, den] (difflib's ratio * 100 is 200*M/T, seldom an  *)
(* integer), compared by cross-multiplication.                             *)
(***************************************************************************)
EXTENDS Integers, Sequences, FiniteSets, TLC

(***************************************************************************)
(* Python values                                                           *)
(***************************************************************************)

\* Python's None passed where a description string is expected.
NoneDesc == <<"<None>">>

\* Faulty variant of Falsy: only None is taken as missing.
is_none(description) == description = NoneDesc

\* `not description`: None and the empty string are falsy.
Falsy(description) == description = NoneDesc \/ description = <<>>

Range(seq) == {seq[i] : i \in 1..Len(seq)}

\* dict.get(key, default) on an optional entry: <<>> is absent, <<v>> present.
Get(opt, default) == IF opt = <<>> THEN default ELSE opt[1]

Rat(n) == [num |-> n, den |-> 1]
Geq(a, b) == a.num * b.den >= b.num * a.den
Gt(a, b) == a.num * b.den > b.num * a.den
RatEq(a, b) == a.num * b.den = b.num * a.den

MinOf(a, b) == IF a <= b THEN a ELSE b

(***************************************************************************)
(* str.upper, str.strip, re.sub(r'\s+', ' ', .)                            *)
(***************************************************************************)

LowerCase == <<"a", "b", "c", "d", "e", "f", "g", "h", "i", "j", "k", "l", "m",
               "n", "o", "p", "q", "r", "s", "t", "u", "v", "w", "x", "y", "z">>
UpperCase == <<"A", "B", "C", "D", "E", "F", "G", "H", "I", "J", "K", "L", "M",
               "N", "O", "P", "Q", "R", "S", "T", "U", "V", "W", "X", "Y", "Z">>

upper_char(c) ==
    IF \E i \in 1..Len(LowerCase) : LowerCase[i] = c
    THEN UpperCase[CHOOSE i \in 1..Len(LowerCase) : LowerCase[i] = c]
    ELSE c

upper(s) == [i \in 1..Len(s) |-> upper_char(s[i])]

\* "nbsp" stands for the one character U+00A0, which is whitespace to str.strip
\* and to \s.
IsSpace(c) == c \in {" ", "\t", "\n", "nbsp"}

strip(s) ==
    LET keep == {i \in 1..Len(s) : ~IsSpace(s[i])}
    IN  IF keep = {} THEN <<>>
        ELSE SubSeq(s, CHOOSE i \in keep : \A j \in keep : i <= j,
                       CHOOSE i \in keep : \A j \in keep : i >= j)

RECURSIVE drop_spaces(_)
drop_spaces(s) ==
    IF s # <<>> /\ IsSpace(Head(s)) THEN drop_spaces(Tail(s)) ELSE s

RECURSIVE collapse_spaces(_)
collapse_spaces(s) ==
    IF s = <<>> THEN <<>>
    ELSE IF IsSpace(Head(s)) THEN <<" ">> \o collapse_spaces(drop_spaces(s))
    ELSE <<Head(s)>> \o collapse_spaces(Tail(s))

\* OperationsMatcher._normalize_description
normalize_description(description) ==
    IF Falsy(description) THEN <<>>
    ELSE strip(collapse_spaces(strip(upper(description))))

\* `x in y` on strings
Contains(y, x) ==
    \E i \in 0..(Len(y) - Len(x)) : SubSeq(y, i + 1, i + Len(x)) = x

(***************************************************************************)
(* difflib.SequenceMatcher(None, a, b).ratio(): the matched characters M   *)
(* are those of the longest common block (earliest in a, then earliest in  *)
(* b) and, recursively, of the pieces to its left and to its right.        *)
(* Indices are Python's: the block a[i:i+k] = b[j:j+k].                    *)
(***************************************************************************)

Blocks(a, b, alo, ahi, blo, bhi) ==
    {c \in (alo..(ahi - 1)) \X (blo..(bhi - 1)) \X (1..MinOf(ahi - alo, bhi - blo)) :
        /\ c[1] + c[3] <= ahi
        /\ c[2] + c[3] <= bhi
        /\ \A t \in 1..c[3] : a[c[1] + t] = b[c[2] + t]}

find_longest_match(a, b, alo, ahi, blo, bhi) ==
    LET cands == Blocks(a, b, alo, ahi, blo, bhi)
    IN  IF cands = {} THEN <<alo, blo, 0>>
        ELSE CHOOSE c \in cands : \A o \in cands :
                \/ c[3] > o[3]
                \/ c[3] = o[3] /\ c[1] < o[1]
                \/ c[3] = o[3] /\ c[1] = o[1] /\ c[2] <= o[2]

RECURSIVE matching_size(_, _, _, _, _, _)
matching_size(a, b, alo, ahi, blo, bhi) ==
    IF alo >= ahi \/ blo >= bhi THEN 0
    ELSE LET m == find_longest_match(a, b, alo, ahi, blo, bhi)
         IN  IF m[3] = 0 THEN 0
             ELSE m[3] + matching_size(a, b, alo, m[1], blo, m[2])
                       + matching_size(a, b, m[1] + m[3], ahi, m[2] + m[3], bhi)

\* OperationsMatcher._calculate_similarity: ratio * 100 as a rational
calculate_similarity(str1, str2) ==
    IF str1 = <<>> \/ str2 = <<>> THEN Rat(0)
    ELSE [num |-> 200 * matching_size(str1, str2, 0, Len(str1), 0, Len(str2)),
          den |-> Len(str1) + Len(str2)]

(***************************************************************************)
(* re.search(pattern, s, re.IGNORECASE) for the dialect the configurations *)
(* use: literals, '.', 'x*', a leading '^'.  A pattern that starts with    *)
(* '*' or opens a '[' it never closes does not compile (re.error).         *)
(***************************************************************************)

regex_error(p) ==
    \/ p # <<>> /\ p[1] = "*"
    \/ \E i \in 1..Len(p) : p[i] = "[" /\ ~\E j \in (i + 1)..Len(p) : p[j] = "]"

CharMatches(pc, c) == pc = "." \/ upper_char(pc) = upper_char(c)

RECURSIVE match_here(_, _)
match_here(p, s) ==
    IF p = <<>> THEN TRUE
    ELSE IF Len(p) >= 2 /\ p[2] = "*"
    THEN \E k \in 0..Len(s) :
            /\ \A t \in 1..k : CharMatches(p[1], s[t])
            /\ match_here(SubSeq(p, 3, Len(p)), SubSeq(s, k + 1, Len(s)))
    ELSE /\ s # <<>>
         /\ CharMatches(p[1], s[1])
         /\ match_here(Tail(p), Tail(s))

regex_search(p, s) ==
    IF p # <<>> /\ p[1] = "^" THEN match_here(Tail(p), s)
    ELSE \E k \in 0..Len(s) : match_here(p, SubSeq(s, k + 1, Len(s)))

(***************************************************************************)
(* The rules configuration (the YAML file _load_config reads).  A dict is  *)
(* a sequence of entries in insertion order; an optional key is <<>> when  *)
(* absent and <<v>> when present.                                          *)
(***************************************************************************)

S_abcd == <<"A", "B", "C", "D">>

Cfg1 ==
    [confidence_thresholds |->
        [fuzzy_match_auto |-> 75, keyword_match_auto |-> 80, pattern_match_auto |-> 75],
     fuzzy_matching |-> << [min_similarity |-> <<60>>] >>,
     exact_matches |-> << <<
        [pattern |-> <<"a", "b", "c", "d", " ">>, type_name |-> "Food"],
        [pattern |-> S_abcd, type_name |-> "Healthcare"] >> >>,
     keyword_matches |-> << <<
        [category |-> "transport", keywords |-> << <<"x">>, <<"k">> >>,
         weight |-> <<80>>, type |-> <<"Transport">>] >> >>,
     pattern_matches |-> << <<
        [category |-> "xc_patterns",
         patterns |-> << <<".", "*", "x", "c", ".", "*">>, <<"[", "k">> >>,
         weight |-> <<75>>, type |-> <<>>] >> >>,
     learning |-> << [track_success |-> <<TRUE>>, min_confidence_for_learning |-> 70,
                      max_learned_patterns |-> 2] >>]

Cfg2 ==
    [confidence_thresholds |->
        [fuzzy_match_auto |-> 80, keyword_match_auto |-> 90, pattern_match_auto |-> 60],
     fuzzy_matching |-> <<>>,
     exact_matches |-> << <<
        [pattern |-> <<"B", "C">>, type_name |-> "Utilities"],
        [pattern |-> S_abcd, type_name |-> "Food"] >> >>,
     keyword_matches |-> << <<
        [category |-> "Transport", keywords |-> << <<"x">> >>,
         weight |-> <<>>, type |-> <<>>] >> >>,
     pattern_matches |-> << <<
        [category |-> "ax_patterns",
         patterns |-> << <<"*", "a">>, <<"^", "a", "x">> >>,
         weight |-> <<>>, type |-> <<"Transport">>] >> >>,
     learning |-> << [track_success |-> <<TRUE>>, min_confidence_for_learning |-> 70,
                      max_learned_patterns |-> 1] >>]

Cfg3 ==
    [confidence_thresholds |->
        [fuzzy_match_auto |-> 90, keyword_match_auto |-> 90, pattern_match_auto |-> 90],
     fuzzy_matching |-> << [min_similarity |-> <<60>>] >>,
     exact_matches |-> << <<
        [pattern |-> S_abcd, type_name |-> "Food"],
        [pattern |-> <<"z", "z", "z">>, type_name |-> "Other"] >> >>,
     keyword_matches |-> << <<
        [category |-> "transport", keywords |-> << <<"x">> >>,
         weight |-> <<70>>, type |-> <<"Transport">>],
        [category |-> "Cash", keywords |-> << <<"k">>, <<"z">> >>,
         weight |-> <<70>>, type |-> <<>>] >> >>,
     pattern_matches |-> << <<
        [category |-> "Cash",
         patterns |-> << <<"d", " ", "k">> >>,
         weight |-> <<50>>, type |-> <<>>] >> >>,
     learning |-> << [track_success |-> <<FALSE>>, min_confidence_for_learning |-> 70,
                      max_learned_patterns |-> 2] >>]

\* A configuration with only the thresholds: every other section is absent.
Cfg4 ==
    [confidence_thresholds |->
        [fuzzy_match_auto |-> 95, keyword_match_auto |-> 80, pattern_match_auto |-> 75],
     fuzzy_matching |-> <<>>,
     exact_matches |-> <<>>,
     keyword_matches |-> <<>>,
     pattern_matches |-> <<>>,
     learning |-> <<>>]

\* A configuration whose keys overlap in one description, and whose later
\* keyword group outweighs the first; no fuzzy_matching or learning section.
Cfg5 ==
    [confidence_thresholds |->
        [fuzzy_match_auto |-> 75, keyword_match_auto |-> 80, pattern_match_auto |-> 75],
     fuzzy_matching |-> <<>>,
     exact_matches |-> << <<
        [pattern |-> <<"x", "c">>, type_name |-> "Food"],
        [pattern |-> <<"c", "d">>, type_name |-> "Utilities"],
        [pattern |-> <<"A", "X", "C", "D", " ", "K", "S">>, type_name |-> "Transport"] >> >>,
     keyword_matches |-> << <<
        [category |-> "food", keywords |-> << <<"x">>, <<"q">> >>,
         weight |-> <<70>>, type |-> <<"Food">>],
        [category |-> "Transport", keywords |-> << <<"X">>, <<"k">> >>,
         weight |-> <<90>>, type |-> <<>>] >> >>,
     pattern_matches |-> <<>>,
     learning |-> <<>>]

\* A configuration of three pattern groups: each holds a pattern that does not
\* compile, the first has no weight of its own, the last reaches the cap.
Cfg6 ==
    [confidence_thresholds |->
        [fuzzy_match_auto |-> 75, keyword_match_auto |-> 80, pattern_match_auto |-> 65],
     fuzzy_matching |-> <<>>,
     exact_matches |-> <<>>,
     keyword_matches |-> <<>>,
     pattern_matches |-> << <<
        [category |-> "food",
         patterns |-> << <<"[", "x">>, <<"x">>, <<"c", ".", "*", "d">> >>,
         weight |-> <<>>, type |-> <<"Food">>],
        [category |-> "Transport",
         patterns |-> << <<"^", "a">>, <<"*", "k">>, <<"k">> >>,
         weight |-> <<63>>, type |-> <<>>],
        [category |-> "cash",
         patterns |-> << <<"q">>, <<"[">>, <<"z", "z">> >>,
         weight |-> <<86>>, type |-> <<"Cash">>] >> >>,
     learning |-> <<>>]

Configs == {Cfg1, Cfg2, Cfg3, Cfg4, Cfg5}

(***************************************************************************)
(* MatchResult, and None for "no result"                                   *)
(***************************************************************************)

MatchResult(type_name, confidence, method, matched, description) ==
    [type_name |-> type_name, confidence |-> confidence, method |-> method,
     details |-> [matched |-> matched, description |-> description]]

None == MatchResult("", Rat(0), "none", <<>>, <<>>)

(***************************************************************************)
(* The matching layers.  exact_match and fuzzy_match read and fill a cache *)
(* keyed by the normalized description: each returns the result and the    *)
(* cache it leaves.                                                        *)
(***************************************************************************)

\* a local variable: body(value), the value being computed once
With(value, body(_)) == body(value)

\* the first index of seq whose entry satisfies test, 0 when there is none
FirstIndex(seq, test(_)) ==
    IF \E i \in 1..Len(seq) : test(seq[i])
    THEN CHOOSE i \in 1..Len(seq) : test(seq[i]) /\ \A j \in 1..(i - 1) : ~test(seq[j])
    ELSE 0

\* `normalized_desc == normalized_pattern` of the direct-match loop
is_direct_match(normalized_desc, normalized_pattern) ==
    normalized_desc = normalized_pattern

\* Faulty variant of is_partial_match: containment in one direction only.
is_contained_match(normalized_desc, normalized_pattern) ==
    Contains(normalized_desc, normalized_pattern)

\* the condition of the partial-match loop
is_partial_match(normalized_desc, normalized_pattern) ==
    \/ Contains(normalized_desc, normalized_pattern)
    \/ Contains(normalized_pattern, normalized_desc)

\* Faulty variant of exact_match_compute: one loop that takes the first pattern
\* matching either way, so a containing pattern ahead of the identical one wins.
exact_match_compute_one_loop(cfg, normalized_desc) ==
    With(Get(cfg.exact_matches, <<>>), LAMBDA exact_matches :
    With(FirstIndex(exact_matches, LAMBDA e :
            is_partial_match(normalized_desc, normalize_description(e.pattern))),
         LAMBDA hit :
    IF hit = 0 THEN None
    ELSE IF is_direct_match(normalized_desc, normalize_description(exact_matches[hit].pattern))
    THEN MatchResult(exact_matches[hit].type_name, Rat(100), "exact", <<>>, normalized_desc)
    ELSE MatchResult(exact_matches[hit].type_name, Rat(95), "exact",
                     <<exact_matches[hit].pattern>>, normalized_desc)))

\* exact_match past its cache check: the two loops over exact_matches
exact_match_compute(cfg, normalized_desc) ==
    With(Get(cfg.exact_matches, <<>>), LAMBDA exact_matches :
    With(FirstIndex(exact_matches, LAMBDA e :
            is_direct_match(normalized_desc, normalize_description(e.pattern))),
         LAMBDA direct :
    IF direct # 0
    THEN MatchResult(exact_matches[direct].type_name, Rat(100), "exact",
                     <<>>, normalized_desc)
    ELSE With(FirstIndex(exact_matches, LAMBDA e :
                 is_partial_match(normalized_desc, normalize_description(e.pattern))),
              LAMBDA partial :
         IF partial # 0
         THEN MatchResult(exact_matches[partial].type_name, Rat(95), "exact",
                          <<exact_matches[partial].pattern>>, normalized_desc)
         ELSE None)))

\* cache[key] = result
Store(cache, key, result) ==
    [k \in DOMAIN cache \cup {key} |-> IF k = key THEN result ELSE cache[k]]

\* Faulty variant of cache_key: only the first four characters make the key, so
\* two descriptions that normalize differently can share a cache entry.
cache_key_prefix(normalized_desc) ==
    SubSeq(normalized_desc, 1, MinOf(4, Len(normalized_desc)))

\* the key both caches are read and written under: the normalized description
cache_key(normalized_desc) == normalized_desc

\* OperationsMatcher.exact_match
exact_match(cfg, cache, description) ==
    With(normalize_description(description), LAMBDA normalized_desc :
    IF cache_key(normalized_desc) \in DOMAIN cache
    THEN [result |-> cache[cache_key(normalized_desc)], cache |-> cache]
    ELSE With(exact_match_compute(cfg, normalized_desc), LAMBDA result :
         [result |-> result, cache |-> Store(cache, cache_key(normalized_desc), result)]))

\* the loop of fuzzy_match over exact_matches, from entry i on
RECURSIVE fuzzy_loop(_, _, _, _, _)
fuzzy_loop(exact_matches, i, normalized_desc, min_similarity, best_match) ==
    IF i > Len(exact_matches) THEN best_match
    ELSE With(calculate_similarity(normalized_desc, exact_matches[i].pattern),
              LAMBDA similarity :
         IF Gt(similarity, best_match.confidence) /\ Geq(similarity, Rat(min_similarity))
         THEN fuzzy_loop(exact_matches, i + 1, normalized_desc, min_similarity,
                         MatchResult(exact_matches[i].type_name, similarity, "fuzzy",
                                     <<exact_matches[i].pattern>>, normalized_desc))
         ELSE fuzzy_loop(exact_matches, i + 1, normalized_desc, min_similarity, best_match))

\* fuzzy_match past its cache check
fuzzy_match_compute(cfg, normalized_desc) ==
    fuzzy_loop(Get(cfg.exact_matches, <<>>), 1, normalized_desc,
               Get(Get(cfg.fuzzy_matching, [min_similarity |-> <<>>]).min_similarity, 85),
               None)

\* Faulty variant of fuzzy_match: only a match is stored, "no match" is not.
fuzzy_match_stores_matches(cfg, cache, description) ==
    With(normalize_description(description), LAMBDA normalized_desc :
    IF cache_key(normalized_desc) \in DOMAIN cache
    THEN [result |-> cache[cache_key(normalized_desc)], cache |-> cache]
    ELSE With(fuzzy_match_compute(cfg, normalized_desc), LAMBDA best_match :
         [result |-> best_match,
          cache |-> IF best_match = None THEN cache
                    ELSE Store(cache, cache_key(normalized_desc), best_match)]))

\* OperationsMatcher.fuzzy_match
fuzzy_match(cfg, cache, description) ==
    With(normalize_description(description), LAMBDA normalized_desc :
    IF cache_key(normalized_desc) \in DOMAIN cache
    THEN [result |-> cache[cache_key(normalized_desc)], cache |-> cache]
    ELSE With(fuzzy_match_compute(cfg, normalized_desc), LAMBDA best_match :
         [result |-> best_match,
          cache |-> Store(cache, cache_key(normalized_desc), best_match)]))

\* Faulty variant of keyword_score: the score is not capped.
keyword_score_uncapped(weight, matched_keywords) == weight + Len(matched_keywords) * 5

keyword_score(weight, matched_keywords) == MinOf(weight + Len(matched_keywords) * 5, 95)

\* the loop of keyword_match over keyword_matches, from group i on
RECURSIVE keyword_loop(_, _, _, _)
keyword_loop(keyword_matches, i, normalized_desc, best_match) ==
    IF i > Len(keyword_matches) THEN best_match
    ELSE With(SelectSeq(keyword_matches[i].keywords, LAMBDA keyword :
                 Contains(normalized_desc, upper(keyword))),
              LAMBDA matched_keywords :
         IF /\ matched_keywords # <<>>
            /\ Gt(Rat(keyword_score(Get(keyword_matches[i].weight, 70), matched_keywords)),
                  best_match.confidence)
         THEN keyword_loop(keyword_matches, i + 1, normalized_desc,
                 MatchResult(Get(keyword_matches[i].type, keyword_matches[i].category),
                     Rat(keyword_score(Get(keyword_matches[i].weight, 70), matched_keywords)),
                     "keyword", matched_keywords, normalized_desc))
         ELSE keyword_loop(keyword_matches, i + 1, normalized_desc, best_match))

\* OperationsMatcher.keyword_match
keyword_match(cfg, description) ==
    keyword_loop(Get(cfg.keyword_matches, <<>>), 1, normalize_description(description), None)

pattern_score(weight, matched_patterns) == MinOf(weight + Len(matched_patterns) * 3, 90)

\* Faulty variant of pattern_matches_description: a pattern that does not
\* compile counts as a match.
matches_unless_malformed(pattern, normalized_desc) ==
    regex_error(pattern) \/ regex_search(pattern, normalized_desc)

\* re.search under try/except re.error: a pattern that does not compile is skipped
pattern_matches_description(pattern, normalized_desc) ==
    ~regex_error(pattern) /\ regex_search(pattern, normalized_desc)

\* the loop of pattern_match over pattern_matches, from group i on
RECURSIVE pattern_loop(_, _, _, _)
pattern_loop(pattern_matches, i, normalized_desc, best_match) ==
    IF i > Len(pattern_matches) THEN best_match
    ELSE With(SelectSeq(pattern_matches[i].patterns, LAMBDA pattern :
                 pattern_matches_description(pattern, normalized_desc)),
              LAMBDA matched_patterns :
         IF /\ matched_patterns # <<>>
            /\ Gt(Rat(pattern_score(Get(pattern_matches[i].weight, 60), matched_patterns)),
                  best_match.confidence)
         THEN pattern_loop(pattern_matches, i + 1, normalized_desc,
                 MatchResult(Get(pattern_matches[i].type, pattern_matches[i].category),
                     Rat(pattern_score(Get(pattern_matches[i].weight, 60), matched_patterns)),
                     "pattern", matched_patterns, normalized_desc))
         ELSE pattern_loop(pattern_matches, i + 1, normalized_desc, best_match))

\* OperationsMatcher.pattern_match
pattern_match(cfg, description) ==
    pattern_loop(Get(cfg.pattern_matches, <<>>), 1, normalize_description(description), None)

(***************************************************************************)
(* classify_operation.  returned_at names the return statement taken.      *)
(***************************************************************************)

Outcome(result, exact_cache, fuzzy_cache, returned_at) ==
    [result |-> result, exact_match_cache |-> exact_cache,
     fuzzy_match_cache |-> fuzzy_cache, returned_at |-> returned_at]

\* Faulty variant of max_confidence: candidates[0], the earliest layer's match.
max_confidence_first(candidates) == candidates[1]

\* max(candidates, key=lambda x: x.confidence): the first of maximal confidence
max_confidence(candidates) ==
    candidates[CHOOSE i \in 1..Len(candidates) :
        /\ \A j \in 1..Len(candidates) : Geq(candidates[i].confidence, candidates[j].confidence)
        /\ \A j \in 1..(i - 1) : Gt(candidates[i].confidence, candidates[j].confidence)]

\* `if x: candidates.append(x)`
candidate(result) == IF result # None THEN <<result>> ELSE <<>>

\* Faulty variant of clears: `>` for `>=`, the threshold itself does not clear.
clears_strict(result, threshold) == result # None /\ Gt(result.confidence, Rat(threshold))

\* `result and result.confidence >= threshold`
clears(result, threshold) == result # None /\ Geq(result.confidence, Rat(threshold))

\* the tail of classify_operation: the best of the lower-confidence matches,
\* the three layers being called again
best_candidate(cfg, exact_cache, fuzzy_cache, description) ==
    With(fuzzy_match(cfg, fuzzy_cache, description), LAMBDA fuzzy :
    With(candidate(fuzzy.result) \o candidate(keyword_match(cfg, description))
                                 \o candidate(pattern_match(cfg, description)),
         LAMBDA candidates :
    IF candidates # <<>>
    THEN Outcome(max_confidence(candidates), exact_cache, fuzzy.cache, "best")
    ELSE Outcome(None, exact_cache, fuzzy.cache, "none")))

\* classify_operation from Layer 4 on
layer_pattern(cfg, exact_cache, fuzzy_cache, description) ==
    With(pattern_match(cfg, description), LAMBDA result :
    IF clears(result, cfg.confidence_thresholds.pattern_match_auto)
    THEN Outcome(result, exact_cache, fuzzy_cache, "pattern_auto")
    ELSE best_candidate(cfg, exact_cache, fuzzy_cache, description))

\* classify_operation from Layer 3 on
layer_keyword(cfg, exact_cache, fuzzy_cache, description) ==
    With(keyword_match(cfg, description), LAMBDA result :
    IF clears(result, cfg.confidence_thresholds.keyword_match_auto)
    THEN Outcome(result, exact_cache, fuzzy_cache, "keyword_auto")
    ELSE layer_pattern(cfg, exact_cache, fuzzy_cache, description))

\* Faulty variant of layer_fuzzy: the keyword layer is asked before the fuzzy layer.
layer_fuzzy_after_keyword(cfg, exact_cache, fuzzy_cache, description) ==
    With(keyword_match(cfg, description), LAMBDA result :
    IF clears(result, cfg.confidence_thresholds.keyword_match_auto)
    THEN Outcome(result, exact_cache, fuzzy_cache, "keyword_auto")
    ELSE With(fuzzy_match(cfg, fuzzy_cache, description), LAMBDA fuzzy :
         IF clears(fuzzy.result, cfg.confidence_thresholds.fuzzy_match_auto)
         THEN Outcome(fuzzy.result, exact_cache, fuzzy.cache, "fuzzy_auto")
         ELSE layer_pattern(cfg, exact_cache, fuzzy.cache, description)))

\* classify_operation from Layer 2 on
layer_fuzzy(cfg, exact_cache, fuzzy_cache, description) ==
    With(fuzzy_match(cfg, fuzzy_cache, description), LAMBDA fuzzy :
    IF clears(fuzzy.result, cfg.confidence_thresholds.fuzzy_match_auto)
    THEN Outcome(fuzzy.result, exact_cache, fuzzy.cache, "fuzzy_auto")
    ELSE layer_keyword(cfg, exact_cache, fuzzy.cache, description))

\* OperationsMatcher.classify_operation
classify_operation(cfg, exact_cache, fuzzy_cache, description) ==
    IF Falsy(description) THEN Outcome(None, exact_cache, fuzzy_cache, "empty")
    ELSE With(exact_match(cfg, exact_cache, description), LAMBDA exact :
         IF exact.result # None
         THEN Outcome(exact.result, exact.cache, fuzzy_cache, "exact")
         ELSE layer_fuzzy(cfg, exact.cache, fuzzy_cache, description))

(***************************************************************************)
(* get_classification_suggestions                                          *)
(***************************************************************************)

\* Faulty variant of should_auto_assign: `>` for `>=` in every branch.
should_auto_assign_strict(thresholds, result) ==
    \/ result.method = "exact"
    \/ result.method = "fuzzy" /\ Gt(result.confidence, Rat(thresholds.fuzzy_match_auto))
    \/ result.method = "keyword" /\ Gt(result.confidence, Rat(thresholds.keyword_match_auto))
    \/ result.method = "pattern" /\ Gt(result.confidence, Rat(thresholds.pattern_match_auto))

\* Faulty variant of should_auto_assign: the confidence is compared with the
\* fuzzy threshold whatever the method of the result is.
should_auto_assign_any_method(thresholds, result) ==
    \/ result.method = "exact"
    \/ Geq(result.confidence, Rat(thresholds.fuzzy_match_auto))

\* the if/elif chain that sets should_auto_assign
should_auto_assign(thresholds, result) ==
    IF result.method = "exact" THEN TRUE
    ELSE IF /\ result.method = "fuzzy"
            /\ Geq(result.confidence, Rat(thresholds.fuzzy_match_auto)) THEN TRUE
    ELSE IF /\ result.method = "keyword"
            /\ Geq(result.confidence, Rat(thresholds.keyword_match_auto)) THEN TRUE
    ELSE IF /\ result.method = "pattern"
            /\ Geq(result.confidence, Rat(thresholds.pattern_match_auto)) THEN TRUE
    ELSE FALSE

ClassificationSuggestion(operation_id, result, auto) ==
    [operation_id |-> operation_id, type_name |-> result.type_name,
     confidence |-> result.confidence, method |-> result.method,
     details |-> result.details, should_auto_assign |-> auto]

\* Faulty variant of append_suggestion: the suggestion goes to the front.
prepend_suggestion(suggestions, suggestion) == <<suggestion>> \o suggestions

\* suggestions.append(suggestion)
append_suggestion(suggestions, suggestion) == Append(suggestions, suggestion)

\* the loop over operations, from pair i on
RECURSIVE suggestions_loop(_, _, _, _, _, _)
suggestions_loop(cfg, operations, i, suggestions, exact_cache, fuzzy_cache) ==
    IF i > Len(operations)
    THEN [suggestions |-> suggestions, exact_match_cache |-> exact_cache,
          fuzzy_match_cache |-> fuzzy_cache]
    ELSE With(classify_operation(cfg, exact_cache, fuzzy_cache, operations[i][2]),
              LAMBDA c :
         suggestions_loop(cfg, operations, i + 1,
             IF c.result # None
             THEN append_suggestion(suggestions,
                         ClassificationSuggestion(operations[i][1], c.result,
                             should_auto_assign(cfg.confidence_thresholds, c.result)))
             ELSE suggestions,
             c.exact_match_cache, c.fuzzy_match_cache))

\* OperationsMatcher.get_classification_suggestions
get_classification_suggestions(cfg, exact_cache, fuzzy_cache, operations) ==
    suggestions_loop(cfg, operations, 1, <<>>, exact_cache, fuzzy_cache)

(***************************************************************************)
(* learn_from_correction                                                   *)
(***************************************************************************)

\* defaultdict(list): a category never touched reads as the empty list
patterns_of(learned, type_name) ==
    IF type_name \in DOMAIN learned THEN learned[type_name] ELSE <<>>

\* the sort key (confidence, count), compared as Python compares tuples
KeyGeq(x, y) ==
    \/ x.confidence > y.confidence
    \/ x.confidence = y.confidence /\ x.count >= y.count

\* list.sort(key=..., reverse=True): stable, entries of equal key keep their order
\* x put behind the entries of the sorted list whose key is not below its own
insert_reverse(sorted, x) ==
    With(Cardinality({i \in 1..Len(sorted) : KeyGeq(sorted[i], x)}), LAMBDA p :
    SubSeq(sorted, 1, p) \o <<x>> \o SubSeq(sorted, p + 1, Len(sorted)))

RECURSIVE sort_reverse(_)
sort_reverse(list) ==
    IF list = <<>> THEN <<>>
    ELSE insert_reverse(sort_reverse(SubSeq(list, 1, Len(list) - 1)), list[Len(list)])

\* Faulty variant of limit_patterns: the slice keeps one entry too many.
limit_patterns_one_more(list, max_patterns) ==
    IF Len(list) > max_patterns + 1
    THEN SubSeq(sort_reverse(list), 1, max_patterns + 1)
    ELSE list

\* the cap: sort and keep [:max_patterns] once the list is longer than that
limit_patterns(list, max_patterns) ==
    IF Len(list) > max_patterns
    THEN SubSeq(sort_reverse(list), 1, max_patterns)
    ELSE list

learning_enabled(cfg) ==
    Get(Get(cfg.learning, [track_success |-> <<>>]).track_success, FALSE)

\* Faulty variant of accepts_confidence: the minimum itself is refused.
accepts_confidence_above(user_confidence, min_confidence) == user_confidence > min_confidence

\* `user_confidence >= min_confidence`
accepts_confidence(user_confidence, min_confidence) == user_confidence >= min_confidence

\* the entry learn_from_correction appends
learned_entry(description, user_confidence) ==
    [pattern |-> normalize_description(description),
     confidence |-> user_confidence, count |-> 1]

\* OperationsMatcher.learn_from_correction: the learned-pattern table it leaves
learn_from_correction(cfg, learned, description, correct_type, user_confidence) ==
    IF ~learning_enabled(cfg) THEN learned
    ELSE IF accepts_confidence(user_confidence, cfg.learning[1].min_confidence_for_learning)
    THEN [t \in DOMAIN learned \cup {correct_type} |->
            IF t = correct_type
            THEN limit_patterns(Append(patterns_of(learned, correct_type),
                                       learned_entry(description, user_confidence)),
                                cfg.learning[1].max_learned_patterns)
            ELSE learned[t]]
    ELSE learned

(***************************************************************************)
(* The statement extractor (src/pdf_processor.py): numbers.  A float is    *)
(* kept as the decimal number its text denotes: a sign, the digits before  *)
(* the point without leading zeros and the digits behind it without        *)
(* trailing zeros (zero has no sign).  The texts here have no exponent,    *)
(* underscore, 'inf' or 'nan', and fewer digits than a double holds.       *)
(***************************************************************************)

\* Python's None where an Optional[str] is expected.
NoneStr == NoneDesc

\* Python's None where an Optional[float] is expected.
NoNumber == [negative |-> FALSE, int |-> <<"None">>, frac |-> <<>>]

Digits == <<"0", "1", "2", "3", "4", "5", "6", "7", "8", "9">>

IsDigit(c) == \E i \in 1..Len(Digits) : Digits[i] = c

RECURSIVE drop_leading_zeros(_)
drop_leading_zeros(digits) ==
    IF digits # <<>> /\ Head(digits) = "0" THEN drop_leading_zeros(Tail(digits)) ELSE digits

RECURSIVE drop_trailing_zeros(_)
drop_trailing_zeros(digits) ==
    IF digits # <<>> /\ digits[Len(digits)] = "0"
    THEN drop_trailing_zeros(SubSeq(digits, 1, Len(digits) - 1))
    ELSE digits

\* the float with the given sign and digits before and behind the point
Number(negative, int_digits, frac_digits) ==
    [negative |-> negative /\ (drop_leading_zeros(int_digits) # <<>>
                                 \/ drop_trailing_zeros(frac_digits) # <<>>),
     int |-> drop_leading_zeros(int_digits),
     frac |-> drop_trailing_zeros(frac_digits)]

\* abs(amount)
abs(number) == [number EXCEPT !.negative = FALSE]

\* str.replace(old, new) for a one-character old
RECURSIVE replace(_, _, _)
replace(text, old, new) ==
    IF text = <<>> THEN <<>>
    ELSE (IF Head(text) = old THEN new ELSE <<Head(text)>>) \o replace(Tail(text), old, new)

\* str.rfind(c): the last index of c, 0 when absent (Python: -1)
rfind(text, c) ==
    IF \E i \in 1..Len(text) : text[i] = c
    THEN CHOOSE i \in 1..Len(text) : text[i] = c /\ \A j \in (i + 1)..Len(text) : text[j] # c
    ELSE 0

\* float(text), NoNumber where Python raises ValueError: an optional sign, then
\* digits with at most one '.', at least one digit; whitespace only at the ends
float(text) ==
    With(strip(text), LAMBDA t :
    With(IF t # <<>> /\ t[1] \in {"+", "-"} THEN Tail(t) ELSE t, LAMBDA body :
    With(rfind(body, "."), LAMBDA dot :
    IF /\ \E i \in 1..Len(body) : IsDigit(body[i])
       /\ \A i \in 1..Len(body) : IsDigit(body[i]) \/ i = dot
    THEN IF dot = 0 THEN Number(t[1] = "-", body, <<>>)
         ELSE Number(t[1] = "-", SubSeq(body, 1, dot - 1), SubSeq(body, dot + 1, Len(body)))
    ELSE NoNumber)))

\* Faulty variant of decimal_point: of '.' and ',' the earlier one is taken for
\* the decimal point.
decimal_point_earlier(text) ==
    IF Contains(text, <<",">>) /\ Contains(text, <<".">>)
    THEN IF rfind(text, ",") < rfind(text, ".")
         THEN replace(replace(text, ".", <<>>), ",", <<".">>)
         ELSE replace(text, ",", <<>>)
    ELSE IF Contains(text, <<",">>)
         THEN replace(replace(text, ".", <<>>), ",", <<".">>)
         ELSE text

\* the separator handling of _normalize_number, on the text without spaces
decimal_point(text) ==
    IF Contains(text, <<",">>) /\ Contains(text, <<".">>)
    THEN IF rfind(text, ",") > rfind(text, ".")
         THEN replace(replace(text, ".", <<>>), ",", <<".">>)
         ELSE replace(text, ",", <<>>)
    ELSE IF Contains(text, <<",">>)
         THEN replace(replace(text, ".", <<>>), ",", <<".">>)
         ELSE text

\* _normalize_number
normalize_number(value) ==
    IF value = NoneStr THEN NoNumber
    ELSE IF strip(value) = <<>> THEN NoNumber
    ELSE float(decimal_point(replace(replace(strip(value), "nbsp", <<>>), " ", <<>>)))

(***************************************************************************)
(* The statement extractor: _NUM_PATTERN, _NUM_WITH_DECIMALS_PATTERN and    *)
(* _parse_amount.  A match is told by the index that follows it, 0 when    *)
(* there is none; the alternatives are tried in the order re tries them.   *)
(***************************************************************************)

\* [\.,\s\u00A0], the separator ahead of a group of three digits
IsGroupSeparator(c) == c \in {".", ","} \/ IsSpace(c)

\* \d{n} at index p of text
DigitsAt(text, p, n) ==
    /\ p >= 1
    /\ p + n - 1 <= Len(text)
    /\ \A i \in p..(p + n - 1) : IsDigit(text[i])

\* (?:[\.,\s\u00A0]\d{3})* and the decimals after it, from index p: as many
\* groups as leave a match; with decimals TRUE the tail [\.,]\d{2} is required
\* (_NUM_WITH_DECIMALS_PATTERN), with FALSE it is optional (_NUM_PATTERN)
RECURSIVE number_groups(_, _, _)
number_groups(text, p, decimals) ==
    With(IF p <= Len(text) /\ IsGroupSeparator(text[p]) /\ DigitsAt(text, p + 1, 3)
         THEN number_groups(text, p + 4, decimals)
         ELSE 0,
         LAMBDA more :
    IF more # 0 THEN more
    ELSE IF p <= Len(text) /\ text[p] \in {".", ","} /\ DigitsAt(text, p + 1, 2) THEN p + 3
    ELSE IF decimals THEN 0
    ELSE p)

\* \d{1,3} and what follows it, from index p: three digits first, then two, then one
number_digits(text, p, decimals) ==
    With({k \in 1..3 : DigitsAt(text, p, k) /\ number_groups(text, p + k, decimals) # 0},
         LAMBDA lengths :
    IF lengths = {} THEN 0
    ELSE number_groups(text, p + (CHOOSE k \in lengths : \A j \in lengths : j <= k), decimals))

\* the number pattern matched at index p: [-+]? and the rest
number_at(text, p, decimals) ==
    IF p <= Len(text) /\ text[p] \in {"+", "-"} /\ number_digits(text, p + 1, decimals) # 0
    THEN number_digits(text, p + 1, decimals)
    ELSE number_digits(text, p, decimals)

\* re.search of the number pattern: the leftmost match as [start, stop), or
\* start = 0 when the text has no match
search_number(text, decimals) ==
    With({p \in 1..Len(text) : number_at(text, p, decimals) # 0}, LAMBDA starts :
    IF starts = {} THEN [start |-> 0, stop |-> 0]
    ELSE With(CHOOSE p \in starts : \A q \in starts : p <= q, LAMBDA p :
         [start |-> p, stop |-> number_at(text, p, decimals)]))

\* _parse_amount
parse_amount(text) ==
    IF text = NoneStr \/ text = <<>> THEN NoNumber
    ELSE With(search_number(text, TRUE), LAMBDA with_decimals :
         With(IF with_decimals.start # 0 THEN with_decimals ELSE search_number(text, FALSE),
              LAMBDA m :
         IF m.start = 0 THEN NoNumber
         ELSE normalize_number(SubSeq(text, m.start, m.stop - 1))))

(***************************************************************************)
(* The statement extractor: the table path of extract_card_operations.     *)
(* A document is what pdfplumber reads from the file: a sequence of pages, *)
(* each with the text extract_text returns and the tables extract_tables   *)
(* returns; a table is a sequence of rows and a row a sequence of cells,   *)
(* each a string or NoneStr.  Column indices are Python's, from 0, and an  *)
(* unassigned role is <<>>.                                                *)
(***************************************************************************)

lower_char(c) ==
    IF \E i \in 1..Len(UpperCase) : UpperCase[i] = c
    THEN LowerCase[CHOOSE i \in 1..Len(UpperCase) : UpperCase[i] = c]
    ELSE c

lower(s) == [i \in 1..Len(s) |-> lower_char(s[i])]

IsLetter(c) == \E i \in 1..Len(LowerCase) : c = LowerCase[i] \/ c = UpperCase[i]

\* \w
IsWordChar(c) == IsLetter(c) \/ IsDigit(c) \/ c = "_"

\* \b at index p of text: between text[p - 1] and text[p], one a word character
\* and the other not (or outside the text)
word_boundary(text, p) ==
    (p - 1 >= 1 /\ p - 1 <= Len(text) /\ IsWordChar(text[p - 1]))
        # (p >= 1 /\ p <= Len(text) /\ IsWordChar(text[p]))

\* the index of the first character from p on that is not whitespace (\s*)
RECURSIVE skip_spaces(_, _)
skip_spaces(text, p) ==
    IF p <= Len(text) /\ IsSpace(text[p]) THEN skip_spaces(text, p + 1) ELSE p

\* Cardul\s+num(?:e|a)r|Cardul\s+number under re.IGNORECASE, at index p
card_anchor_at(text, p) ==
    /\ p + 5 <= Len(text)
    /\ lower(SubSeq(text, p, p + 5)) = <<"c", "a", "r", "d", "u", "l">>
    /\ p + 6 <= Len(text)
    /\ IsSpace(text[p + 6])
    /\ \E word \in {<<"n", "u", "m", "e", "r">>, <<"n", "u", "m", "a", "r">>, <<"n", "u", "m", "b", "e", "r">>} :
          With(skip_spaces(text, p + 6), LAMBDA q :
          /\ q + Len(word) - 1 <= Len(text)
          /\ lower(SubSeq(text, q, q + Len(word) - 1)) = word)

\* has_card_anchor: re.search of the anchor in the page text
has_card_anchor(page_text) == \E p \in 1..Len(page_text) : card_anchor_at(page_text, p)

\* _find_pages_with_card_section: the indices (from 1) of the anchored pages
find_pages_with_card_section(document) ==
    SelectSeq([i \in 1..Len(document) |-> i],
              LAMBDA i : has_card_anchor(document[i].text))

\* candidate_pages clipped to the document: the anchored pages, every page
\* when no page is anchored
pages_to_scan(document) ==
    IF find_pages_with_card_section(document) = <<>>
    THEN [i \in 1..Len(document) |-> i]
    ELSE find_pages_with_card_section(document)

\* the keyword sets of the four column roles
DateLabels == {<<"d", "a", "t", "a">>, <<"t", "r", "a", "n", "z", "a", "c">>}
ProcessedLabels == {<<"p", "r", "o", "c", "e", "s">>, <<"p", "o", "s", "t">>, <<"v", "a", "l", "u", "t">>, <<"s", "e", "t", "t", "l", "e">>}
DescriptionLabels == {<<"d", "e", "s", "c", "r">>, <<"d", "e", "t", "a", "l", "i">>, <<"m", "e", "r", "c", "h", "a", "n", "t">>, <<"d", "e", "s", "c", "r", "i", "e", "r", "e">>}
AmountLabels == {<<"l", "e", "i">>, <<"s", "u", "m">>, <<"a", "m", "o", "u", "n", "t">>, <<"v", "a", "l", "o", "a", "r", "e">>, <<"d", "e", "b", "i", "t">>, <<"p", "l", "a", "t", "i">>}

\* `col or ""`
cell_text(col) == IF col = NoneStr THEN <<>> ELSE col

\* label = (col or "").strip().lower()
label_of(col) == lower(strip(cell_text(col)))

\* the first column whose label has one of the words in it, <<>> when none has
role_column(header, words) ==
    With(FirstIndex(header, LAMBDA col : \E word \in words : Contains(label_of(col), word)),
         LAMBDA first :
    IF first = 0 THEN <<>> ELSE <<first - 1>>)

\* max(range(len(header)), key=lambda i: len(header[i] or "")): the first of
\* the longest header cells
wordiest_idx(header) ==
    (CHOOSE i \in 1..Len(header) :
        /\ \A j \in 1..Len(header) : Len(cell_text(header[j])) <= Len(cell_text(header[i]))
        /\ \A j \in 1..(i - 1) : Len(cell_text(header[j])) < Len(cell_text(header[i]))) - 1

\* the description column once the fallback has run
description_column(header, detected, amount) ==
    IF detected = <<>> /\ Len(header) >= 2 /\ <<wordiest_idx(header)>> # amount
    THEN <<wordiest_idx(header)>>
    ELSE detected

\* col_map for a header on a page; skipped when no amount label was found and
\* the page has no anchor
column_map(header, anchored) ==
    With(role_column(header, AmountLabels), LAMBDA detected_amount :
    With(IF detected_amount = <<>> THEN <<Len(header) - 1>> ELSE detected_amount,
         LAMBDA amount :
    [skipped |-> detected_amount = <<>> /\ ~anchored,
     date |-> role_column(header, DateLabels),
     processed |-> role_column(header, ProcessedLabels),
     description |-> description_column(header, role_column(header, DescriptionLabels),
                                        amount),
     amount |-> amount]))

\* row[col] when the role is assigned and col < len(row), else None; a
\* negative index counts from the end of the row
cell_of(row, column) ==
    IF column = <<>> \/ column[1] >= Len(row) THEN NoneStr
    ELSE IF column[1] >= 0 THEN row[column[1] + 1]
    ELSE row[Len(row) + column[1] + 1]

\* normalize_cell
normalize_cell(c) ==
    IF c = NoneStr THEN NoneStr ELSE strip(replace(c, "\n", <<" ">>))

Operation(transaction_date, processed_date, description, amount_lei) ==
    [transaction_date |-> transaction_date, processed_date |-> processed_date,
     description |-> description, amount_lei |-> amount_lei]

\* Faulty variant of is_valid_row: a described row is taken whatever its amount.
is_described_row(description, amount) ==
    description # NoneStr /\ description # <<>>

\* `description and amount is not None`
is_valid_row(description, amount) ==
    description # NoneStr /\ description # <<>> /\ amount # NoNumber

\* one pass of the row loop: the Operation appended for the row, if any
row_operations(row, col_map) ==
    IF \A i \in 1..Len(row) : row[i] = NoneStr \/ row[i] = <<>> THEN <<>>
    ELSE IF is_valid_row(normalize_cell(cell_of(row, col_map.description)),
                         parse_amount(cell_of(row, col_map.amount)))
    THEN << Operation(normalize_cell(cell_of(row, col_map.date)),
                      normalize_cell(cell_of(row, col_map.processed)),
                      normalize_cell(cell_of(row, col_map.description)),
                      parse_amount(cell_of(row, col_map.amount))) >>
    ELSE <<>>

\* the row loop from row i on
RECURSIVE rows_operations(_, _, _)
rows_operations(tbl, i, col_map) ==
    IF i > Len(tbl) THEN <<>>
    ELSE row_operations(tbl[i], col_map) \o rows_operations(tbl, i + 1, col_map)

\* one pass of the table loop
table_operations(tbl, anchored) ==
    IF Len(tbl) < 2 THEN <<>>
    ELSE IF column_map(tbl[1], anchored).skipped THEN <<>>
    ELSE rows_operations(tbl, 2, column_map(tbl[1], anchored))

\* the table loop of one page from table i on
RECURSIVE tables_operations(_, _, _)
tables_operations(tables, i, anchored) ==
    IF i > Len(tables) THEN <<>>
    ELSE table_operations(tables[i], anchored) \o tables_operations(tables, i + 1, anchored)

\* Faulty variant of stops_after_page: the scan never stops early.
never_stops(anchored, operations) == FALSE

\* `has_card_anchor and len(operations) >= 5` at the end of a page
stops_after_page(anchored, operations) == anchored /\ Len(operations) >= 5

\* The pages (counted from 1) on which pdfplumber fails: broken.tables holds
\* those whose page.extract_tables() raises, broken.text those whose
\* page.extract_text() raises.  No call of the extractor is made under try.
NoBroken == [tables |-> {}, text |-> {}]

\* the exception of a failing page leaves the function
page_failure == [raised |-> "Exception", operations |-> <<>>]

\* the page loop from the k-th page to scan on, with the operations so far:
\* the exception raised ("" for none) and the operations collected
RECURSIVE scan_pages(_, _, _, _, _)
scan_pages(document, broken, pages, k, operations) ==
    IF k > Len(pages) THEN [raised |-> "", operations |-> operations]
    ELSE IF pages[k] \in broken.tables THEN page_failure
    ELSE IF document[pages[k]].tables = <<>>
    THEN scan_pages(document, broken, pages, k + 1, operations)
    ELSE IF pages[k] \in broken.text THEN page_failure
    ELSE With(has_card_anchor(document[pages[k]].text), LAMBDA anchored :
         With(operations \o tables_operations(document[pages[k]].tables, 1, anchored),
              LAMBDA found :
         IF stops_after_page(anchored, found) THEN [raised |-> "", operations |-> found]
         ELSE scan_pages(document, broken, pages, k + 1, found)))

\* the table path: _find_pages_with_card_section reads the text of every page,
\* then the page loop collects the operations
operations_from_tables(document, broken) ==
    IF broken.text # {} THEN page_failure
    ELSE scan_pages(document, broken, pages_to_scan(document), 1, <<>>)

(***************************************************************************)
(* The statement extractor: the text-line fallback.  Indices into a line   *)
(* count from 1; a match is [start, stop), stop the index that follows it. *)
(***************************************************************************)

\* [./-] between the parts of a date
IsDateSeparator(c) == c \in {".", "/", "-"}

\* date_regex matched at index p: \b, then dd?dd?yy(yy) with the longest year
\* that ends at a word boundary, else yyyy?dd?dd; the stop, 0 for no match
date_at(text, p) ==
    IF ~word_boundary(text, p) THEN 0
    ELSE With({n \in 2..4 :
                /\ DigitsAt(text, p, 2)
                /\ p + 5 <= Len(text)
                /\ IsDateSeparator(text[p + 2])
                /\ DigitsAt(text, p + 3, 2)
                /\ IsDateSeparator(text[p + 5])
                /\ DigitsAt(text, p + 6, n)
                /\ word_boundary(text, p + 6 + n)},
              LAMBDA years :
         IF years # {} THEN p + 6 + (CHOOSE n \in years : \A m \in years : m <= n)
         ELSE IF /\ DigitsAt(text, p, 4)
                 /\ p + 7 <= Len(text)
                 /\ IsDateSeparator(text[p + 4])
                 /\ DigitsAt(text, p + 5, 2)
                 /\ IsDateSeparator(text[p + 7])
                 /\ DigitsAt(text, p + 8, 2)
                 /\ word_boundary(text, p + 10)
         THEN p + 10
         ELSE 0)

\* find_dates: the matches of date_regex.finditer from index p on
RECURSIVE find_dates(_, _)
find_dates(text, p) ==
    IF p > Len(text) THEN <<>>
    ELSE IF date_at(text, p) # 0
    THEN <<[start |-> p, stop |-> date_at(text, p),
            text |-> SubSeq(text, p, date_at(text, p) - 1)]>>
         \o find_dates(text, date_at(text, p))
    ELSE find_dates(text, p + 1)

CurrencyCodes == {<<"M", "D", "L">>, <<"U", "S", "D">>, <<"E", "U", "R">>}

\* currency_amount_regex matched at index p: \b, the code in any case, \b,
\* whitespace, a number with decimals
currency_amount_at(text, p) ==
    /\ word_boundary(text, p)
    /\ p + 2 <= Len(text)
    /\ upper(SubSeq(text, p, p + 2)) \in CurrencyCodes
    /\ word_boundary(text, p + 3)
    /\ number_at(text, skip_spaces(text, p + 3), TRUE) # 0

\* currency_amount_regex.search(line): start = 0 when there is no match
search_currency_amount(text) ==
    With({p \in 1..Len(text) : currency_amount_at(text, p)}, LAMBDA starts :
    IF starts = {} THEN [start |-> 0, ccy |-> <<>>, amt |-> <<>>]
    ELSE With(CHOOSE p \in starts : \A q \in starts : p <= q, LAMBDA p :
         [start |-> p,
          ccy |-> SubSeq(text, p, p + 2),
          amt |-> SubSeq(text, skip_spaces(text, p + 3),
                         number_at(text, skip_spaces(text, p + 3), TRUE) - 1)]))

\* str.strip(chars) with the characters of a set
strip_chars(text, chars) ==
    With({i \in 1..Len(text) : text[i] \notin chars}, LAMBDA keep :
    IF keep = {} THEN <<>>
    ELSE SubSeq(text, CHOOSE i \in keep : \A j \in keep : i <= j,
                      CHOOSE i \in keep : \A j \in keep : i >= j))

\* str.replace(word, "")
RECURSIVE remove_word(_, _)
remove_word(text, word) ==
    IF Len(text) < Len(word) THEN text
    ELSE IF SubSeq(text, 1, Len(word)) = word
    THEN remove_word(SubSeq(text, Len(word) + 1, Len(text)), word)
    ELSE <<Head(text)>> \o remove_word(Tail(text), word)

\* [-:\s] and the two dashes, the separators left around a merchant name; "endash" and
\* "emdash" stand for U+2013 and U+2014
IsLeftover(c) == c \in {"-", "endash", "emdash", ":"} \/ IsSpace(c)

IsDash(c) == c \in {"-", "endash", "emdash"}

\* text is, from index p to its end, a number of _NUM_PATTERN (with or
\* without decimals, its groups taken or not) and whitespace after it
RECURSIVE number_to_end(_, _)
number_to_end(text, p) ==
    \/ /\ p <= Len(text)
       /\ IsGroupSeparator(text[p])
       /\ DigitsAt(text, p + 1, 3)
       /\ number_to_end(text, p + 4)
    \/ /\ p <= Len(text)
       /\ text[p] \in {".", ","}
       /\ DigitsAt(text, p + 1, 2)
       /\ skip_spaces(text, p + 3) > Len(text)
    \/ skip_spaces(text, p) > Len(text)

\* \s*[-+]?(number)\s*$ matched at index p
trailing_amount_at(text, p) ==
    With(skip_spaces(text, p), LAMBDA q :
    \E signs \in 0..2 :
        /\ \A i \in q..(q + signs - 1) : i <= Len(text) /\ text[i] \in {"+", "-"}
        /\ \E k \in 1..3 :
              /\ DigitsAt(text, q + signs, k)
              /\ number_to_end(text, q + signs + k))

\* \s*[dash]\s*\d{1,6}\s*$ matched at index p
trailing_code_at(text, p) ==
    With(skip_spaces(text, p), LAMBDA q :
    /\ q <= Len(text)
    /\ IsDash(text[q])
    /\ \E k \in 1..6 :
          /\ DigitsAt(text, skip_spaces(text, q + 1), k)
          /\ skip_spaces(text, skip_spaces(text, q + 1) + k) > Len(text))

\* re.sub(pattern + "$", "", text) for trailing_amount_at: the text ahead of
\* the leftmost index the pattern matches at
drop_trailing_amount(text) ==
    With({p \in 1..Len(text) : trailing_amount_at(text, p)}, LAMBDA starts :
    IF starts = {} THEN text
    ELSE SubSeq(text, 1, (CHOOSE p \in starts : \A q \in starts : p <= q) - 1))

drop_trailing_code(text) ==
    With({p \in 1..Len(text) : trailing_code_at(text, p)}, LAMBDA starts :
    IF starts = {} THEN text
    ELSE SubSeq(text, 1, (CHOOSE p \in starts : \A q \in starts : p <= q) - 1))

\* the merchant name between collapsing the segment and the letter test
quoted_merchant(merchant_segment) ==
    strip(strip_chars(collapse_spaces(merchant_segment), {"\"", "'"}))

\* the cleaning of the merchant name after the letter test
clean_merchant(merchant) ==
    With(strip(remove_word(remove_word(remove_word(merchant,
            <<"M", "D", "L">>), <<"U", "S", "D">>), <<"E", "U", "R">>)), LAMBDA no_codes :
    With(SelectSeq(no_codes, LAMBDA c : c \notin {"\"", "'"}), LAMBDA no_quotes :
    strip(collapse_spaces(drop_trailing_code(drop_trailing_amount(
        strip_chars(no_quotes, {c \in Range(no_quotes) : IsLeftover(c)})))))))

\* one pass of the line loop: the Operation appended for raw_line, if any
line_operations(raw_line) ==
    With(strip(replace(raw_line, "nbsp", <<" ">>)), LAMBDA line :
    With(search_currency_amount(line), LAMBDA m_ca :
    IF line = <<>> \/ m_ca.start = 0 \/ normalize_number(m_ca.amt) = NoNumber THEN <<>>
    ELSE With(find_dates(line, 1), LAMBDA dates :
         With(IF Len(dates) >= 2 THEN dates[2].stop
              ELSE IF Len(dates) = 1 THEN dates[1].stop ELSE 1, LAMBDA last_date_end :
         With(quoted_merchant(strip(SubSeq(line, last_date_end, m_ca.start - 1))),
              LAMBDA merchant :
         IF ~\E i \in 1..Len(merchant) : IsLetter(merchant[i]) THEN <<>>
         ELSE IF clean_merchant(merchant) = <<>> THEN <<>>
         ELSE << Operation(IF Len(dates) >= 1 THEN dates[1].text ELSE NoneStr,
                           IF Len(dates) >= 2 THEN dates[2].text ELSE NoneStr,
                           clean_merchant(merchant),
                           IF upper(m_ca.ccy) = <<"M", "D", "L">>
                           THEN abs(normalize_number(m_ca.amt))
                           ELSE normalize_number(m_ca.amt)) >>)))))

\* str.splitlines
RECURSIVE splitlines(_)
splitlines(text) ==
    IF text = <<>> THEN <<>>
    ELSE With({i \in 1..Len(text) : text[i] = "\n"}, LAMBDA breaks :
         IF breaks = {} THEN <<text>>
         ELSE With(CHOOSE i \in breaks : \A j \in breaks : i <= j, LAMBDA first :
              <<SubSeq(text, 1, first - 1)>>
                  \o splitlines(SubSeq(text, first + 1, Len(text)))))

\* the line loop
RECURSIVE lines_operations(_, _)
lines_operations(lines, i) ==
    IF i > Len(lines) THEN <<>>
    ELSE line_operations(lines[i]) \o lines_operations(lines, i + 1)

\* "\n".join of the page texts
RECURSIVE join_pages(_, _)
join_pages(document, i) ==
    IF i > Len(document) THEN <<>>
    ELSE IF i = Len(document) THEN document[i].text
    ELSE document[i].text \o <<"\n">> \o join_pages(document, i + 1)

\* _extract_text_from_pdf of a readable document
extract_text_from_pdf(document) == join_pages(document, 1)

\* the operations of the text-line fallback
operations_from_text(document) ==
    lines_operations(splitlines(extract_text_from_pdf(document)), 1)

(***************************************************************************)
(* The statement extractor: the entry points                               *)
(***************************************************************************)

\* Faulty variant of uses_text_fallback: a single table record is not enough.
text_fallback_below_two(operations) == Len(operations) < 2

\* `if not operations`, ahead of the text-line fallback
uses_text_fallback(operations) == operations = <<>>

\* extract_card_operations(pdf_path) when the path exists or not, pdfplumber
\* was imported or not, the file holds the document and pdfplumber fails on
\* the broken pages: the exception raised ("" for none) and the list returned.
\* The text fallback reads the text of every page once more.
extract_card_operations(path_exists, backend, document, broken) ==
    IF ~path_exists THEN [raised |-> "FileNotFoundError", operations |-> <<>>]
    ELSE IF ~backend THEN [raised |-> "RuntimeError", operations |-> <<>>]
    ELSE With(operations_from_tables(document, broken), LAMBDA scanned :
         IF scanned.raised # "" THEN scanned
         ELSE IF uses_text_fallback(scanned.operations)
         THEN IF broken.text # {} THEN page_failure
              ELSE With(operations_from_text(document), LAMBDA text_ops :
                   [raised |-> "",
                    operations |-> IF text_ops # <<>> THEN text_ops ELSE scanned.operations])
         ELSE scanned)

\* process_pdf(pdf_path) on a document pdfplumber reads without failure: the
\* exception raised ("" for none); the PDFSummary it returns otherwise is not
\* modelled
process_pdf(path_exists, backend, document) ==
    IF ~path_exists THEN [raised |-> "FileNotFoundError"]
    ELSE IF ~backend THEN [raised |-> "RuntimeError"]
    ELSE [raised |-> ""]

(***************************************************************************)
(* get_matcher and the configuration files                                 *)
(***************************************************************************)

\* None passed as config_path
NonePath == "<None>"

DefaultPath == "config/operations_matching.yaml"

\* The configuration files that exist, with what yaml.safe_load reads from each.
ConfigFiles ==
    [path \in {DefaultPath, "rules.yaml", "other.yaml"} |->
        CASE path = DefaultPath -> Cfg1
          [] path = "rules.yaml" -> Cfg3
          [] path = "other.yaml" -> Cfg5]

\* The paths get_matcher is called with; no file has the last one.
ConfigPaths == {NonePath, "", "rules.yaml", "other.yaml", "nonexistent_config.yaml"}

\* The fields of a matcher that does not exist: nothing is loaded.
NoConfig ==
    [confidence_thresholds |->
        [fuzzy_match_auto |-> 0, keyword_match_auto |-> 0, pattern_match_auto |-> 0],
     fuzzy_matching |-> <<>>,
     exact_matches |-> <<>>,
     keyword_matches |-> <<>>,
     pattern_matches |-> <<>>,
     learning |-> <<>>]

\* `config_path or "config/operations_matching.yaml"`
config_path_of(config_path) ==
    IF config_path \in {NonePath, ""} THEN DefaultPath ELSE config_path

\* Faulty variant of is_none_installed: a matcher is built at every call.
always_builds(installed) == TRUE

\* `_global_matcher is None`
is_none_installed(installed) == installed = 0

\* get_matcher on the process p = [global_matcher, the fields of that instance]:
\* the exception raised ("" for none) and the process it leaves
get_matcher(p, config_path) ==
    IF is_none_installed(p.global_matcher)
    THEN IF config_path_of(config_path) \notin DOMAIN ConfigFiles
         THEN [raised |-> "FileNotFoundError", process |-> p]
         ELSE [raised |-> "",
               process |-> [global_matcher |-> p.global_matcher + 1,
                            config |-> ConfigFiles[config_path_of(config_path)],
                            exact_match_cache |-> [k \in {} |-> None],
                            fuzzy_match_cache |-> [k \in {} |-> None],
                            learned_patterns |-> [k \in {} |-> None]]]
    ELSE [raised |-> "", process |-> p]

(***************************************************************************)
(* The matcher as a state machine                                          *)
(***************************************************************************)

VARIABLES
    pdfplumber,         \* pdf_processor.pdfplumber: TRUE when the import succeeded
    global_matcher,     \* _global_matcher: 0 for None, else the serial of the instance
    config,             \* self.config, loaded once by __init__
    exact_match_cache,  \* self.exact_match_cache: normalized description -> result
    fuzzy_match_cache,  \* self.fuzzy_match_cache
    learned_patterns,   \* self.learned_patterns: category -> list of entries
    last,               \* the call whose return value the caller holds, NoCall between calls
    running,            \* the calls threads are inside of on the shared matcher, step by step
    operation_rows      \* the OperationRow table of the database, in insertion order

vars == <<pdfplumber, global_matcher, config, exact_match_cache, fuzzy_match_cache,
          learned_patterns, last, running, operation_rows>>

\* The descriptions the calls are made with.
Descriptions ==
    { NoneDesc,
      <<>>,
      <<" ">>,
      <<"a", "b", "c", "d">>,
      <<" ", "A", "b", "C", "d", "\t">>,
      <<"a", "x", "c", "d">>,
      <<"a", "x", "c", "d", " ", " ", "k">>,
      <<"z", "z">> }

\* The longest batch get_classification_suggestions is called with.
MaxBatch == 2

\* The descriptions of a batch, and the operation id of the pair at each
\* position (database row ids, in no particular order).
BatchDescriptions ==
    { <<" ">>,
      <<"a", "b", "c", "d">>,
      <<"a", "x", "c", "d">>,
      <<"a", "x", "c", "d", " ", " ", "k">>,
      <<"z", "z">> }

OperationId(i) == 100 - 7 * i

Batches ==
    UNION {{[i \in 1..n |-> <<OperationId(i), ds[i]>>] : ds \in [1..n -> BatchDescriptions]} :
           n \in 0..MaxBatch}

TypeNames == {"Food", "Transport"}

UserConfidences == {60, 70, 90, 95}

LearnDescriptions == {<<"a", "b", "c", "d">>, <<" ", "z", "z">>}

\* The descriptions pattern_match is called with, besides Descriptions.
PatternDescriptions ==
    { <<"z", "z">>, <<"q", " ", "z", "z">>, <<"k">>, <<"x", " ", "q">>, <<"[", "x">> }

EmptyCache == [k \in {} |-> None]

\* The threads that call the shared matcher at the same time, and a thread
\* that is inside no call.
Threads == {1, 2}

Idle ==
    [op |-> "none", pc |-> "idle", description |-> <<>>, correct_type |-> "",
     user_confidence |-> 0, hit |-> FALSE, result |-> None, raised |-> ""]

NoThreads == [t \in Threads |-> Idle]

\* The amount strings _normalize_number is called with: a sign, a leading group
\* of digits, up to MaxGroups groups of three digits each behind a separator
\* (or none), and two decimals behind ',' or '.'.
MaxGroups == 2

Separators == {<<>>, <<".">>, <<",">>, <<" ">>, <<"nbsp">>}

Groups ==
    UNION {[1..n -> [sep : Separators, digits : {<<"2", "3", "4">>, <<"0", "5", "0">>}]] :
           n \in 0..MaxGroups}

Amounts ==
    [sign : {<<>>, <<"-">>},
     head : {<<"7">>, <<"1", "2">>},
     groups : Groups,
     dec_sep : {",", "."},
     decimals : {<<"5", "6">>, <<"0", "5">>, <<"0", "0">>}]

RECURSIVE render_groups(_)
render_groups(groups) ==
    IF groups = <<>> THEN <<>>
    ELSE Head(groups).sep \o Head(groups).digits \o render_groups(Tail(groups))

\* the string an amount is written as
render(amount) ==
    amount.sign \o amount.head \o render_groups(amount.groups)
        \o <<amount.dec_sep>> \o amount.decimals

\* Other values: None, empty and blank strings, text that is no number.
OtherValues ==
    { NoneStr, <<>>, <<" ">>, <<"nbsp", "\t">>, <<"x">>, <<"-">>, <<"1", "2">>,
      <<" ", "1", ",", "5", " ">>, <<"1", ".", "2", ".", "3">>, <<"1", "\t", "2", "3", "4", ",", "5", "6">>,
      <<"1", "2", " ", "M", "D", "L">> }

\* The statements read: the rows and headers the tables are made of, the
\* page texts, and the documents.  The longest generated table has MaxRows
\* data rows and the longest document put together from whole pages has
\* MaxPages pages.
MaxRows == 2

MaxPages == 2

Rows ==
    { <<<<"0", "1", ".", "0", "2", ".", "2", "4">>, <<"S", "h", "o", "p">>, <<"1", "2", ",", "5", "0">>>>,
      <<NoneStr, <<" ">>, <<"7", ",", "0", "0">>>>,
      <<<<"x">>, <<"A", "\n", "B">>, <<"1", ".", "2", "3", "4", ".", "5", "6", "7">>>>,
      <<NoneStr, <<"S", "h", "o", "p">>, NoneStr>>,
      <<<<>>, <<>>, <<>>>>,
      <<<<"S", "h", "o", "p">>>>,
      <<NoneStr, <<"B">>, <<"0", ",", "0", "0">>>>,
      <<<<"1", ",", "0", "0">>, <<"1", "2", ",", "5", "0">>, <<"-", "5">>>> }

Headers ==
    { <<<<"D", "a", "t", "a">>, <<"D", "e", "s", "c", "r", "i", "e", "r", "e">>, <<"S", "u", "m", "a">>>>,
      <<<<"a">>, <<"b", "b", "b">>, <<"c">>>>,
      <<<<"D", "e", "t", "a", "l", "i", "i", " ", "p", "l", "a", "t", "i">>, <<"x">>, <<"y">>>>,
      <<<<"S", "u", "m", "a">>>> }

RowLists == UNION {[1..n -> Rows] : n \in 1..MaxRows}

GeneratedTables == {<<header>> \o rows : header \in Headers, rows \in RowLists}

AnchorText == <<"C", "a", "r", "d", "u", "l", " ", "n", "u", "m", "a", "r", " ", "1">>

\* a line the fallback reads an operation from
ShopLine == <<"0", "1", ".", "0", "2", ".", "2", "0", "2", "4", " ", "K", "a", "u", "f", "l", "a", "n", "d", " ", "M", "D", "L", " ", "-", "1", "2", ",", "5", "0">>

\* a line with two dates, a quoted merchant, a store code and a negative amount
CodeLine == <<"1", ".", "2", ".", "2", "4", " ", "3", ".", "2", ".", "2", "4", " ", "0", "2", ".", "0", "2", ".", "2", "4", " ", "0", "3", "/", "0", "2", "/", "2", "0", "2", "4", " ", "\"", "L", "i", "n", "e", "l", "l", "a", "\"", " ", "-", " ", "4", "1", "2", " ", "u", "s", "d", " ", "-", "1", " ", "1", "4", "3", ".", "0", "0", " ", "9", ",", "9", "9">>

\* a line whose amount does not normalize
BadAmountLine == <<"x", " ", "E", "U", "R", " ", "1", ",", "2", "3", "4", ",", "5", "6">>

PageTexts == {<<>>, ShopLine, AnchorText \o <<"\n">> \o CodeLine}

\* a labelled table with one row that is taken and two that are not
StatementTable ==
    << <<<<"D", "a", "t", "a", " ", "t", "r", "a", "n", "z", "a", "c", "t", "i", "e", "i">>, <<"D", "a", "t", "a", " ", "p", "r", "o", "c", "e", "s", "a", "r", "i", "i">>, <<"D", "e", "t", "a", "l", "i", "i">>, <<"D", "e", "b", "i", "t">>>>,
       <<<<"0", "1", ".", "0", "2", ".", "2", "0", "2", "4">>, <<"0", "2", ".", "0", "2", ".", "2", "0", "2", "4">>, <<" ", "K", "a", "u", "f", "l", "a", "n", "d", "\n", "C", "h", "i", "s", "i", "n", "a", "u", " ">>, <<"1", ".", "2", "3", "4", ",", "5", "6", " ", "M", "D", "L">>>>,
       <<<<"0", "1", ".", "0", "2", ".", "2", "0", "2", "4">>, NoneStr, <<>>, <<"5", ",", "0", "0">>>>,
       <<NoneStr, NoneStr, <<"T", "o", "t", "a", "l">>, NoneStr>> >>

\* a table whose header has no role label
PlainTable ==
    << <<<<"a">>, <<"b", "b", "b">>, <<"c">>>>,
       <<<<"q">>, <<"S", "h", "o", "p">>, <<"5", ",", "0", "0">>>> >>

\* a labelled table with five rows that are taken
LongTable ==
    << <<<<"D", "e", "s", "c", "r">>, <<"L", "e", "i">>>>,
       <<<<"S", "h", "o", "p", " ", "1">>, <<"1", ",", "0", "0">>>>,
       <<<<"S", "h", "o", "p", " ", "2">>, <<"2", ",", "0", "0">>>>,
       <<<<"S", "h", "o", "p", " ", "3">>, <<"3", ",", "0", "0">>>>,
       <<<<"S", "h", "o", "p", " ", "4">>, <<"4", ",", "0", "0">>>>,
       <<<<"S", "h", "o", "p", " ", "5">>, <<"5", ",", "0", "0">>>> >>

Pages ==
    { [text |-> ShopLine \o <<"\n">> \o BadAmountLine \o <<"\n">> \o CodeLine, tables |-> <<>>],
      [text |-> AnchorText \o <<"\n">> \o ShopLine, tables |-> <<StatementTable>>],
      [text |-> AnchorText, tables |-> <<LongTable>>],
      [text |-> <<>>, tables |-> <<PlainTable>>],
      [text |-> BadAmountLine, tables |-> <<PlainTable, StatementTable>>] }

\* the documents of one page with one generated table
TableDocuments ==
    {<<[text |-> text, tables |-> <<tbl>>]>> : text \in PageTexts, tbl \in GeneratedTables}

\* an anchored page whose table has four rows that are taken
FourRowsPage == [text |-> AnchorText, tables |-> <<SubSeq(LongTable, 1, 5)>>]

\* statements of three anchored pages, the five-row table on one of them
EarlyExitDocuments ==
    With([text |-> AnchorText \o <<"\n">> \o ShopLine, tables |-> <<StatementTable>>],
         LAMBDA statement_page :
    With([text |-> AnchorText, tables |-> <<LongTable>>], LAMBDA long_page :
    { <<FourRowsPage, statement_page, long_page>>,
      <<FourRowsPage, long_page, statement_page>>,
      <<long_page, FourRowsPage, statement_page>>,
      <<statement_page, statement_page, FourRowsPage>> }))

\* the documents put together from whole pages
PageDocuments == UNION {[1..n -> Pages] : n \in 0..MaxPages}

Documents == TableDocuments \cup PageDocuments \cup EarlyExitDocuments

\* one page of a three-page statement on which pdfplumber fails
BrokenPages ==
    {[tables |-> {p}, text |-> {}] : p \in 1..3} \cup {[tables |-> {}, text |-> {p}] : p \in 1..3}

\* No amount: the value passed was not written from one.
NoAmount == [sign |-> <<>>, head |-> <<>>, groups |-> <<>>, dec_sep |-> "", decimals |-> <<>>]

NoCall ==
    [op |-> "none", description |-> <<>>, operations |-> <<>>, result |-> None,
     returned_at |-> "", suggestions |-> <<>>, correct_type |-> "",
     user_confidence |-> 0, before |-> EmptyCache,
     value |-> <<>>, amount |-> NoAmount, number |-> NoNumber, raised |-> "",
     config_path |-> "", matcher |-> 0,
     path_exists |-> TRUE, document |-> <<>>, broken |-> NoBroken, extracted |-> <<>>,
     pdf_id |-> 0, replace_existing |-> FALSE, stored_count |-> 0, skipped_count |-> 0]

\* OperationsMatcher.__init__, in a process where pdfplumber was imported and
\* get_matcher has not been called
Init ==
    /\ pdfplumber = TRUE
    /\ global_matcher = 0
    /\ config \in Configs
    /\ exact_match_cache = EmptyCache
    /\ fuzzy_match_cache = EmptyCache
    /\ learned_patterns = EmptyCache
    /\ last = NoCall
    /\ running = NoThreads
    /\ operation_rows = <<>>

ClassifyOperation(description) ==
    /\ last = NoCall
    /\ \E c \in {classify_operation(config, exact_match_cache,
                                      fuzzy_match_cache, description)} :
        /\ exact_match_cache' = c.exact_match_cache
        /\ fuzzy_match_cache' = c.fuzzy_match_cache
        /\ last' = [NoCall EXCEPT !.op = "classify_operation",
                                  !.description = description,
                                  !.result = c.result,
                                  !.returned_at = c.returned_at]
        /\ UNCHANGED <<running, operation_rows, pdfplumber, global_matcher, config, learned_patterns>>

ExactMatch(description) ==
    /\ last = NoCall
    /\ \E e \in {exact_match(config, exact_match_cache, description)} :
        /\ exact_match_cache' = e.cache
        /\ last' = [NoCall EXCEPT !.op = "exact_match",
                                  !.description = description,
                                  !.result = e.result]
        /\ UNCHANGED <<running, operation_rows, pdfplumber, global_matcher, config, fuzzy_match_cache, learned_patterns>>

FuzzyMatch(description) ==
    /\ last = NoCall
    /\ \E f \in {fuzzy_match(config, fuzzy_match_cache, description)} :
        /\ fuzzy_match_cache' = f.cache
        /\ last' = [NoCall EXCEPT !.op = "fuzzy_match",
                                  !.description = description,
                                  !.result = f.result]
        /\ UNCHANGED <<running, operation_rows, pdfplumber, global_matcher, config, exact_match_cache, learned_patterns>>

KeywordMatch(description) ==
    /\ last = NoCall
    /\ last' = [NoCall EXCEPT !.op = "keyword_match",
                              !.description = description,
                              !.result = keyword_match(config, description)]
    /\ UNCHANGED <<running, operation_rows, pdfplumber, global_matcher, config, exact_match_cache, fuzzy_match_cache, learned_patterns>>

PatternMatch(description) ==
    /\ last = NoCall
    /\ last' = [NoCall EXCEPT !.op = "pattern_match",
                              !.description = description,
                              !.result = pattern_match(config, description)]
    /\ UNCHANGED <<running, operation_rows, pdfplumber, global_matcher, config, exact_match_cache, fuzzy_match_cache, learned_patterns>>

\* OperationsMatcher.clear_caches
ClearCaches ==
    /\ last = NoCall
    /\ exact_match_cache' = EmptyCache
    /\ fuzzy_match_cache' = EmptyCache
    /\ last' = [NoCall EXCEPT !.op = "clear_caches"]
    /\ UNCHANGED <<running, operation_rows, pdfplumber, global_matcher, config, learned_patterns>>

GetClassificationSuggestions(operations) ==
    /\ last = NoCall
    /\ \E g \in {get_classification_suggestions(config, exact_match_cache,
                                                  fuzzy_match_cache, operations)} :
        /\ exact_match_cache' = g.exact_match_cache
        /\ fuzzy_match_cache' = g.fuzzy_match_cache
        /\ last' = [NoCall EXCEPT !.op = "get_classification_suggestions",
                                  !.operations = operations,
                                  !.suggestions = g.suggestions]
        /\ UNCHANGED <<running, operation_rows, pdfplumber, global_matcher, config, learned_patterns>>

\* Faulty variant of LearnFromCorrection: the correction is also put in the
\* exact-match cache, as a match of the corrected category.
LearnFromCorrectionIntoCache(description, correct_type, user_confidence) ==
    /\ last = NoCall
    /\ learned_patterns' = learn_from_correction(config, learned_patterns, description,
                                                 correct_type, user_confidence)
    /\ exact_match_cache' =
          Store(exact_match_cache, normalize_description(description),
                MatchResult(correct_type, Rat(user_confidence), "exact", <<>>,
                            normalize_description(description)))
    /\ last' = [NoCall EXCEPT !.op = "learn_from_correction",
                              !.description = description,
                              !.correct_type = correct_type,
                              !.user_confidence = user_confidence,
                              !.before = learned_patterns]
    /\ UNCHANGED <<running, operation_rows, pdfplumber, global_matcher, config, fuzzy_match_cache>>

LearnFromCorrection(description, correct_type, user_confidence) ==
    /\ last = NoCall
    /\ learned_patterns' = learn_from_correction(config, learned_patterns, description,
                                                 correct_type, user_confidence)
    /\ last' = [NoCall EXCEPT !.op = "learn_from_correction",
                              !.description = description,
                              !.correct_type = correct_type,
                              !.user_confidence = user_confidence,
                              !.before = learned_patterns]
    /\ UNCHANGED <<running, operation_rows, pdfplumber, global_matcher, config, exact_match_cache, fuzzy_match_cache>>

\* The calls of learn_from_correction that threads make at the same time.
LearnCalls ==
    [description : LearnDescriptions, correct_type : TypeNames, user_confidence : {60, 70, 90}]

\* Each thread calls learn_from_correction on the shared matcher: a thread whose
\* call learns nothing returns at once, the others stand before the append.
StartLearners(calls) ==
    /\ last = NoCall
    /\ running' = [t \in Threads |->
          [Idle EXCEPT !.op = "learn_from_correction",
                       !.description = calls[t].description,
                       !.correct_type = calls[t].correct_type,
                       !.user_confidence = calls[t].user_confidence,
                       !.pc = IF /\ learning_enabled(config)
                                 /\ accepts_confidence(calls[t].user_confidence,
                                        config.learning[1].min_confidence_for_learning)
                              THEN "append" ELSE "done"]]
    /\ last' = [NoCall EXCEPT !.op = "threads.learn_from_correction",
                              !.before = learned_patterns]
    /\ UNCHANGED <<operation_rows, pdfplumber, global_matcher, config, exact_match_cache, fuzzy_match_cache, learned_patterns>>

\* the list of the thread's category replaced by list
with_patterns(learned, type_name, list) ==
    [c \in DOMAIN learned \cup {type_name} |-> IF c = type_name THEN list ELSE learned[c]]

\* `self.learned_patterns[correct_type].append({...})`
LearnAppend(t) ==
    /\ running[t].op = "learn_from_correction" /\ running[t].pc = "append"
    /\ learned_patterns' =
          with_patterns(learned_patterns, running[t].correct_type,
              Append(patterns_of(learned_patterns, running[t].correct_type),
                     learned_entry(running[t].description, running[t].user_confidence)))
    /\ running' = [running EXCEPT ![t].pc = "check"]
    /\ UNCHANGED <<last, operation_rows, pdfplumber, global_matcher, config, exact_match_cache, fuzzy_match_cache>>

\* `if len(self.learned_patterns[correct_type]) > max_patterns`
LearnCheck(t) ==
    /\ running[t].op = "learn_from_correction" /\ running[t].pc = "check"
    /\ running' = [running EXCEPT ![t].pc =
          IF Len(patterns_of(learned_patterns, running[t].correct_type))
                > config.learning[1].max_learned_patterns
          THEN "sort" ELSE "done"]
    /\ UNCHANGED <<last, operation_rows, pdfplumber, global_matcher, config, exact_match_cache, fuzzy_match_cache, learned_patterns>>

\* `self.learned_patterns[correct_type].sort(key=..., reverse=True)`, in place
LearnSort(t) ==
    /\ running[t].op = "learn_from_correction" /\ running[t].pc = "sort"
    /\ learned_patterns' =
          with_patterns(learned_patterns, running[t].correct_type,
              sort_reverse(patterns_of(learned_patterns, running[t].correct_type)))
    /\ running' = [running EXCEPT ![t].pc = "truncate"]
    /\ UNCHANGED <<last, operation_rows, pdfplumber, global_matcher, config, exact_match_cache, fuzzy_match_cache>>

\* `self.learned_patterns[correct_type] = self.learned_patterns[correct_type][:max_patterns]`
LearnTruncate(t) ==
    /\ running[t].op = "learn_from_correction" /\ running[t].pc = "truncate"
    /\ learned_patterns' =
          with_patterns(learned_patterns, running[t].correct_type,
              SubSeq(patterns_of(learned_patterns, running[t].correct_type), 1,
                     MinOf(config.learning[1].max_learned_patterns,
                           Len(patterns_of(learned_patterns, running[t].correct_type)))))
    /\ running' = [running EXCEPT ![t].pc = "done"]
    /\ UNCHANGED <<last, operation_rows, pdfplumber, global_matcher, config, exact_match_cache, fuzzy_match_cache>>

\* The calls threads make at the same time on the shared matcher.
ClassifierCalls ==
    [op : {"classify_operation"},
     description : {<<"a", "b", "c", "d">>, <<"a", "x", "c", "d">>, <<"z", "z">>, <<>>}]
        \cup {[op |-> "clear_caches", description |-> <<>>]}

\* Each thread calls classify_operation or clear_caches on the shared matcher:
\* `if not description: return None` returns at once, the others stand before
\* the membership test of exact_match or before the first clear().
StartClassifiers(calls) ==
    /\ last = NoCall
    /\ running' = [t \in Threads |->
          [Idle EXCEPT !.op = calls[t].op,
                       !.description = calls[t].description,
                       !.pc = IF calls[t].op = "clear_caches" THEN "clear_exact"
                              ELSE IF Falsy(calls[t].description) THEN "done"
                              ELSE "exact_test"]]
    /\ last' = [NoCall EXCEPT !.op = "threads.classify_operation"]
    /\ UNCHANGED <<operation_rows, pdfplumber, global_matcher, config, exact_match_cache, fuzzy_match_cache, learned_patterns>>

\* The three cache lookups of one classify_operation call: exact_match, the
\* fuzzy_match of Layer 2, and the fuzzy_match the fallback makes again.
Lookups == {"exact", "fuzzy", "again"}

\* the cache a lookup goes to
cache_of(lookup, exact_cache, fuzzy_cache) ==
    IF lookup = "exact" THEN exact_cache ELSE fuzzy_cache

\* what exact_match or fuzzy_match computes past its cache check
computed(cfg, lookup, normalized_desc) ==
    IF lookup = "exact" THEN exact_match_compute(cfg, normalized_desc)
    ELSE fuzzy_match_compute(cfg, normalized_desc)

\* classify_operation from the return of a lookup on: the place it goes to next
\* and, when it returns, its result
proceeds(cfg, lookup, description, value) ==
    IF lookup = "exact"
    THEN IF value # None THEN [pc |-> "done", result |-> value]
         ELSE [pc |-> "fuzzy_test", result |-> None]
    ELSE IF lookup = "fuzzy"
    THEN IF clears(value, cfg.confidence_thresholds.fuzzy_match_auto)
         THEN [pc |-> "done", result |-> value]
         ELSE With(keyword_match(cfg, description), LAMBDA keyword_result :
              IF clears(keyword_result, cfg.confidence_thresholds.keyword_match_auto)
              THEN [pc |-> "done", result |-> keyword_result]
              ELSE With(pattern_match(cfg, description), LAMBDA pattern_result :
                   IF clears(pattern_result, cfg.confidence_thresholds.pattern_match_auto)
                   THEN [pc |-> "done", result |-> pattern_result]
                   ELSE [pc |-> "again_test", result |-> None]))
    ELSE With(candidate(value) \o candidate(keyword_match(cfg, description))
                               \o candidate(pattern_match(cfg, description)),
              LAMBDA candidates :
         [pc |-> "done",
          result |-> IF candidates # <<>> THEN max_confidence(candidates) ELSE None])

\* `if normalized_desc in self.exact_match_cache` / `in self.fuzzy_match_cache`
CacheTest(t, lookup) ==
    /\ running[t].op = "classify_operation" /\ running[t].pc = lookup \o "_test"
    /\ running' = [running EXCEPT ![t].pc =
          IF cache_key(normalize_description(running[t].description))
                \in DOMAIN cache_of(lookup, exact_match_cache, fuzzy_match_cache)
          THEN lookup \o "_read" ELSE lookup \o "_insert"]
    /\ UNCHANGED <<last, operation_rows, pdfplumber, global_matcher, config, exact_match_cache, fuzzy_match_cache, learned_patterns>>

\* `return self.exact_match_cache[normalized_desc]`: the subscript raises
\* KeyError when the key is no longer there, and nothing catches it
CacheRead(t, lookup) ==
    /\ running[t].op = "classify_operation" /\ running[t].pc = lookup \o "_read"
    /\ \E key \in {cache_key(normalize_description(running[t].description))},
          cache \in {cache_of(lookup, exact_match_cache, fuzzy_match_cache)} :
          running' = [running EXCEPT ![t] =
             IF key \notin DOMAIN cache
             THEN [@ EXCEPT !.pc = "done", !.raised = "KeyError"]
             ELSE With(proceeds(config, lookup, running[t].description, cache[key]),
                       LAMBDA next : [@ EXCEPT !.pc = next.pc, !.result = next.result])]
    /\ UNCHANGED <<last, operation_rows, pdfplumber, global_matcher, config, exact_match_cache, fuzzy_match_cache, learned_patterns>>

\* the miss: the layer computes its result and `self.*_cache[normalized_desc] = ...`
CacheInsert(t, lookup) ==
    /\ running[t].op = "classify_operation" /\ running[t].pc = lookup \o "_insert"
    /\ \E key \in {cache_key(normalize_description(running[t].description))} :
       \E value \in {computed(config, lookup, normalize_description(running[t].description))} :
          /\ exact_match_cache' = IF lookup = "exact"
                                  THEN Store(exact_match_cache, key, value)
                                  ELSE exact_match_cache
          /\ fuzzy_match_cache' = IF lookup = "exact"
                                  THEN fuzzy_match_cache
                                  ELSE Store(fuzzy_match_cache, key, value)
          /\ \E next \in {proceeds(config, lookup, running[t].description, value)} :
                running' = [running EXCEPT ![t].pc = next.pc, ![t].result = next.result]
    /\ UNCHANGED <<last, operation_rows, pdfplumber, global_matcher, config, learned_patterns>>

\* `self.exact_match_cache.clear()`
ClearExact(t) ==
    /\ running[t].op = "clear_caches" /\ running[t].pc = "clear_exact"
    /\ exact_match_cache' = EmptyCache
    /\ running' = [running EXCEPT ![t].pc = "clear_fuzzy"]
    /\ UNCHANGED <<last, operation_rows, pdfplumber, global_matcher, config, fuzzy_match_cache, learned_patterns>>

\* `self.fuzzy_match_cache.clear()`
ClearFuzzy(t) ==
    /\ running[t].op = "clear_caches" /\ running[t].pc = "clear_fuzzy"
    /\ fuzzy_match_cache' = EmptyCache
    /\ running' = [running EXCEPT ![t].pc = "done"]
    /\ UNCHANGED <<last, operation_rows, pdfplumber, global_matcher, config, exact_match_cache, learned_patterns>>

\* Every thread has returned from its call.
Join ==
    /\ last # NoCall
    /\ \A t \in Threads : running[t].op # "none" /\ running[t].pc = "done"
    /\ running' = NoThreads
    /\ last' = NoCall
    /\ UNCHANGED <<operation_rows, pdfplumber, global_matcher, config, exact_match_cache, fuzzy_match_cache, learned_patterns>>

(***************************************************************************)
(* sql_utils: the OperationRow table and hash-based deduplication          *)
(***************************************************************************)

\* str(x) of an Optional[str] inside an f-string: None is written "None"
str_of(value) == IF value = NoneStr THEN <<"N", "o", "n", "e">> ELSE value

\* str(x) of an Optional[float] inside an f-string: the repr of the float, with
\* at least one digit on each side of the point
float_str(number) ==
    IF number = NoNumber THEN <<"N", "o", "n", "e">>
    ELSE (IF number.negative THEN <<"-">> ELSE <<>>)
         \o (IF number.int = <<>> THEN <<"0">> ELSE number.int)
         \o <<".">>
         \o (IF number.frac = <<>> THEN <<"0">> ELSE number.frac)

\* Faulty variant of generate_operation_hash: processed_date is hashed too.
hash_with_processed_date(operation) ==
    str_of(operation.transaction_date) \o <<"|">> \o str_of(operation.processed_date)
        \o <<"|">> \o str_of(operation.description)
        \o <<"|">> \o float_str(operation.amount_lei)

\* generate_operation_hash.  SHA-256 is taken to be free of collisions: the
\* digest is represented by the string it is computed from.
generate_operation_hash(operation) ==
    str_of(operation.transaction_date) \o <<"|">> \o str_of(operation.description)
        \o <<"|">> \o float_str(operation.amount_lei)

\* check_operation_exists_by_hash: TRUE when the select finds a row.  The
\* session autoflushes (the default of Session(engine)), so the rows added
\* earlier in the same call are found too.
check_operation_exists_by_hash(rows, operation_hash) ==
    \E i \in 1..Len(rows) : rows[i].operation_hash = operation_hash

\* OperationRow(pdf_id=..., ..., operation_hash=...); id and type_id are left out
OperationRow(pdf_id, op, operation_hash) ==
    [pdf_id |-> pdf_id, transaction_date |-> op.transaction_date,
     processed_date |-> op.processed_date, description |-> op.description,
     amount_lei |-> op.amount_lei, operation_hash |-> operation_hash]

\* `delete(OperationRow).where(OperationRow.pdf_id == pdf_id)`
RECURSIVE delete_rows_of(_, _)
delete_rows_of(rows, pdf_id) ==
    IF rows = <<>> THEN <<>>
    ELSE IF Head(rows).pdf_id = pdf_id THEN delete_rows_of(Tail(rows), pdf_id)
    ELSE <<Head(rows)>> \o delete_rows_of(Tail(rows), pdf_id)

\* the `for op in operations` loop of store_operations_with_deduplication, from
\* operation i on
RECURSIVE store_loop(_, _, _, _, _, _, _)
store_loop(rows, pdf_id, operations, i, skip_duplicates, stored_count, skipped_count) ==
    IF i > Len(operations)
    THEN [rows |-> rows, stored_count |-> stored_count, skipped_count |-> skipped_count]
    ELSE With(generate_operation_hash(operations[i]), LAMBDA operation_hash :
         IF skip_duplicates /\ check_operation_exists_by_hash(rows, operation_hash)
         THEN store_loop(rows, pdf_id, operations, i + 1, skip_duplicates,
                         stored_count, skipped_count + 1)
         ELSE store_loop(Append(rows, OperationRow(pdf_id, operations[i], operation_hash)),
                         pdf_id, operations, i + 1, skip_duplicates,
                         stored_count + 1, skipped_count))

\* store_operations_with_deduplication
store_operations_with_deduplication(rows, pdf_id, operations, replace_existing, skip_duplicates) ==
    store_loop(IF replace_existing THEN delete_rows_of(rows, pdf_id) ELSE rows,
               pdf_id, operations, 1, skip_duplicates, 0, 0)

\* The PDFs operations are stored for.
PdfIds == {1, 2}

\* The operations that are stored: two that differ in processed_date only, a
\* missing transaction date next to the date string "None" with a negative
\* amount, and another description with a missing amount.
StoredOperations ==
    { Operation(<<"1", ".", "2">>, <<"2", ".", "2">>, <<"a">>, Number(FALSE, <<"7">>, <<>>)),
      Operation(<<"1", ".", "2">>, <<"3", ".", "2">>, <<"a">>, Number(FALSE, <<"7">>, <<>>)),
      Operation(NoneStr, <<"2", ".", "2">>, <<"a">>, Number(TRUE, <<"7">>, <<"5">>)),
      Operation(<<"N", "o", "n", "e">>, NoneStr, <<"a">>, Number(TRUE, <<"7">>, <<"5">>)),
      Operation(<<"1", ".", "2">>, <<"2", ".", "2">>, <<"b">>, NoNumber) }

\* The longest list of operations stored by one call.
MaxStored == 2

StoredBatches ==
    UNION {[1..n -> StoredOperations] : n \in 0..MaxStored}

StoreOperationsWithDeduplication(pdf_id, operations, replace_existing, skip_duplicates) ==
    /\ last = NoCall
    /\ \E s \in {store_operations_with_deduplication(operation_rows, pdf_id, operations,
                                                      replace_existing, skip_duplicates)} :
        /\ operation_rows' = s.rows
        /\ last' = [NoCall EXCEPT !.op = "store_operations_with_deduplication",
                                  !.operations = operations,
                                  !.pdf_id = pdf_id,
                                  !.replace_existing = replace_existing,
                                  !.stored_count = s.stored_count,
                                  !.skipped_count = s.skipped_count]
    /\ UNCHANGED <<running, pdfplumber, global_matcher, config, exact_match_cache, fuzzy_match_cache, learned_patterns>>

\* _normalize_number: the ValueError of float is caught inside, nothing is raised
NormalizeNumber(value) ==
    /\ last = NoCall
    /\ last' = [NoCall EXCEPT !.op = "_normalize_number",
                              !.value = value,
                              !.number = normalize_number(value)]
    /\ UNCHANGED <<running, operation_rows, pdfplumber, global_matcher, config, exact_match_cache, fuzzy_match_cache, learned_patterns>>

\* _normalize_number on the string an amount is written as
NormalizeAmount(amount) ==
    /\ last = NoCall
    /\ last' = [NoCall EXCEPT !.op = "_normalize_number",
                              !.value = render(amount),
                              !.amount = amount,
                              !.number = normalize_number(render(amount))]
    /\ UNCHANGED <<running, operation_rows, pdfplumber, global_matcher, config, exact_match_cache, fuzzy_match_cache, learned_patterns>>

\* The process after the modules are imported: no matcher exists yet, so the
\* fields have nothing loaded.
InitProcess ==
    /\ pdfplumber = TRUE
    /\ global_matcher = 0
    /\ config = NoConfig
    /\ exact_match_cache = EmptyCache
    /\ fuzzy_match_cache = EmptyCache
    /\ learned_patterns = EmptyCache
    /\ last = NoCall
    /\ running = NoThreads
    /\ operation_rows = <<>>

\* _global_matcher and the fields of the instance it refers to
Process ==
    [global_matcher |-> global_matcher, config |-> config,
     exact_match_cache |-> exact_match_cache, fuzzy_match_cache |-> fuzzy_match_cache,
     learned_patterns |-> learned_patterns]

\* get_matcher(config_path)
GetMatcher(config_path) ==
    /\ last = NoCall
    /\ \E g \in {get_matcher(Process, config_path)} :
        /\ global_matcher' = g.process.global_matcher
        /\ config' = g.process.config
        /\ exact_match_cache' = g.process.exact_match_cache
        /\ fuzzy_match_cache' = g.process.fuzzy_match_cache
        /\ learned_patterns' = g.process.learned_patterns
        /\ last' = [NoCall EXCEPT !.op = "get_matcher",
                                  !.config_path = config_path,
                                  !.raised = g.raised,
                                  !.matcher = IF g.raised = "" THEN g.process.global_matcher
                                              ELSE 0]
        /\ UNCHANGED <<running, operation_rows, pdfplumber>>

\* the module-level classify_operation(description, config_path)
ModuleClassifyOperation(description, config_path) ==
    /\ last = NoCall
    /\ \E g \in {get_matcher(Process, config_path)} :
       \E c \in {IF g.raised # ""
                  THEN Outcome(None, g.process.exact_match_cache,
                               g.process.fuzzy_match_cache, "raised")
                  ELSE classify_operation(g.process.config, g.process.exact_match_cache,
                                          g.process.fuzzy_match_cache, description)} :
        /\ global_matcher' = g.process.global_matcher
        /\ config' = g.process.config
        /\ exact_match_cache' = c.exact_match_cache
        /\ fuzzy_match_cache' = c.fuzzy_match_cache
        /\ learned_patterns' = g.process.learned_patterns
        /\ last' = [NoCall EXCEPT !.op = "module.classify_operation",
                                  !.description = description,
                                  !.config_path = config_path,
                                  !.raised = g.raised,
                                  !.matcher = IF g.raised = "" THEN g.process.global_matcher
                                              ELSE 0,
                                  !.result = c.result,
                                  !.returned_at = c.returned_at]
        /\ UNCHANGED <<running, operation_rows, pdfplumber>>

\* The process after the modules are imported, pdfplumber found or not.
InitExtractor ==
    /\ pdfplumber \in BOOLEAN
    /\ global_matcher = 0
    /\ config = NoConfig
    /\ exact_match_cache = EmptyCache
    /\ fuzzy_match_cache = EmptyCache
    /\ learned_patterns = EmptyCache
    /\ last = NoCall
    /\ running = NoThreads
    /\ operation_rows = <<>>

\* extract_card_operations(pdf_path) on a path that exists or not; document is
\* what the file at the path holds
ExtractCardOperations(path_exists, document, broken) ==
    /\ last = NoCall
    /\ \E e \in {extract_card_operations(path_exists, pdfplumber, document, broken)} :
        last' = [NoCall EXCEPT !.op = "extract_card_operations",
                               !.path_exists = path_exists,
                               !.document = document,
                               !.broken = broken,
                               !.raised = e.raised,
                               !.extracted = e.operations]
    /\ UNCHANGED <<running, operation_rows, pdfplumber, global_matcher, config, exact_match_cache, fuzzy_match_cache, learned_patterns>>

\* process_pdf(pdf_path)
ProcessPdf(path_exists, document) ==
    /\ last = NoCall
    /\ last' = [NoCall EXCEPT !.op = "process_pdf",
                              !.path_exists = path_exists,
                              !.document = document,
                              !.raised = process_pdf(path_exists, pdfplumber, document).raised]
    /\ UNCHANGED <<running, operation_rows, pdfplumber, global_matcher, config, exact_match_cache, fuzzy_match_cache, learned_patterns>>

\* The call returns: the caller has taken the value and may call again.
Return ==
    /\ last # NoCall
    /\ last' = NoCall
    /\ UNCHANGED <<running, operation_rows, pdfplumber, global_matcher, config, exact_match_cache, fuzzy_match_cache, learned_patterns>>

\* The classifier: single classifications, direct layer calls and cache clearing.
Next ==
    \/ \E d \in Descriptions : ClassifyOperation(d)
    \/ \E d \in Descriptions : ExactMatch(d)
    \/ \E d \in Descriptions : FuzzyMatch(d)
    \/ ClearCaches
    \/ Return

Spec == Init /\ [][Next]_vars

\* Batch suggestions and single classifications over the shared caches.
NextSuggest ==
    \/ \E operations \in Batches : GetClassificationSuggestions(operations)
    \/ \E d \in Descriptions : ClassifyOperation(d)
    \/ ClearCaches
    \/ Return

SpecSuggest == Init /\ [][NextSuggest]_vars

\* Learning from corrections.
NextLearn ==
    \/ \E d \in LearnDescriptions, t \in TypeNames, c \in UserConfidences :
            LearnFromCorrection(d, t, c)
    \/ Return

SpecLearn == Init /\ [][NextLearn]_vars

\* Corrections between classifications: the descriptions corrected are also
\* classified, with one confidence below and one above the learning minimum.
ClassifiedAfterLearning == LearnDescriptions \cup {<<"a", "x", "c", "d">>}

NextLearnClassify ==
    \/ \E d \in LearnDescriptions, t \in TypeNames, c \in {60, 90} :
            LearnFromCorrection(d, t, c)
    \/ \E d \in ClassifiedAfterLearning : ClassifyOperation(d)
    \/ Return

SpecLearnClassify == Init /\ [][NextLearnClassify]_vars

\* The four layers called one by one, as classify_operation calls them.
NextLayers ==
    \/ \E d \in Descriptions : ExactMatch(d)
    \/ \E d \in Descriptions : FuzzyMatch(d)
    \/ \E d \in Descriptions : KeywordMatch(d)
    \/ \E d \in Descriptions : ClassifyOperation(d)
    \/ Return

SpecLayers == Init /\ [][NextLayers]_vars

\* OperationsMatcher.__init__ on a configuration of Configs or on Cfg6
InitPattern ==
    /\ pdfplumber = TRUE
    /\ global_matcher = 0
    /\ config \in Configs \cup {Cfg6}
    /\ exact_match_cache = EmptyCache
    /\ fuzzy_match_cache = EmptyCache
    /\ learned_patterns = EmptyCache
    /\ last = NoCall
    /\ running = NoThreads
    /\ operation_rows = <<>>

\* The pattern layer called on its own and by classify_operation.
NextPattern ==
    \/ \E d \in Descriptions \cup PatternDescriptions : PatternMatch(d)
    \/ \E d \in PatternDescriptions : ClassifyOperation(d)
    \/ Return

SpecPattern == InitPattern /\ [][NextPattern]_vars

\* Threads learning from corrections on one matcher, their steps interleaved.
NextLearners ==
    \/ \E calls \in [Threads -> LearnCalls] : StartLearners(calls)
    \/ \E t \in Threads : LearnAppend(t)
    \/ \E t \in Threads : LearnCheck(t)
    \/ \E t \in Threads : LearnSort(t)
    \/ \E t \in Threads : LearnTruncate(t)
    \/ Join

SpecLearners == Init /\ [][NextLearners]_vars


\* Threads classifying on one matcher while its caches are cleared, their steps
\* interleaved.
NextClassifiers ==
    \/ \E calls \in [Threads -> ClassifierCalls] : StartClassifiers(calls)
    \/ \E t \in Threads, lookup \in Lookups : CacheTest(t, lookup)
    \/ \E t \in Threads, lookup \in Lookups : CacheRead(t, lookup)
    \/ \E t \in Threads, lookup \in Lookups : CacheInsert(t, lookup)
    \/ \E t \in Threads : ClearExact(t)
    \/ \E t \in Threads : ClearFuzzy(t)
    \/ Join

SpecClassifiers == Init /\ [][NextClassifiers]_vars


\* A database with no operation rows yet.
InitStore ==
    /\ pdfplumber = TRUE
    /\ global_matcher = 0
    /\ config = NoConfig
    /\ exact_match_cache = EmptyCache
    /\ fuzzy_match_cache = EmptyCache
    /\ learned_patterns = EmptyCache
    /\ last = NoCall
    /\ running = NoThreads
    /\ operation_rows = <<>>

\* The store: statements of several PDFs stored with skip_duplicates=True.
NextStore ==
    \/ \E pdf_id \in PdfIds, operations \in StoredBatches, replace_existing \in BOOLEAN :
          StoreOperationsWithDeduplication(pdf_id, operations, replace_existing, TRUE)
    \/ Return

SpecStore == InitStore /\ [][NextStore]_vars

\* The process-wide matcher: get_matcher, the module-level classify_operation
\* and corrections taught to the matcher get_matcher handed out.
NextProcess ==
    \/ \E config_path \in ConfigPaths : GetMatcher(config_path)
    \/ \E d \in ClassifiedAfterLearning, config_path \in ConfigPaths :
            ModuleClassifyOperation(d, config_path)
    \/ /\ global_matcher # 0
       /\ \E d \in LearnDescriptions, t \in TypeNames : LearnFromCorrection(d, t, 90)
    \/ Return

SpecProcess == InitProcess /\ [][NextProcess]_vars

\* The extractor's entry points, on files that exist and on a path with no file.
NextExtractor ==
    \/ \E document \in Documents : ExtractCardOperations(TRUE, document, NoBroken)
    \/ \E document \in EarlyExitDocuments, broken \in BrokenPages :
            ExtractCardOperations(TRUE, document, broken)
    \/ ExtractCardOperations(FALSE, <<>>, NoBroken)
    \/ \E document \in PageDocuments : ProcessPdf(TRUE, document)
    \/ ProcessPdf(FALSE, <<>>)
    \/ Return

SpecExtractor == InitExtractor /\ [][NextExtractor]_vars

\* The number normalizer on its own: a function of pdf_processor that reads
\* no matcher and no configuration.
NextNumber ==
    \/ \E value \in OtherValues : NormalizeNumber(value)
    \/ \E amount \in Amounts : NormalizeAmount(amount)
    \/ Return

SpecNumber == InitExtractor /\ [][NextNumber]_vars

(***************************************************************************)
(* What the layers compute for a description on a matcher with empty       *)
(* caches, and the thresholds, as the properties below refer to them.      *)
(***************************************************************************)

Thresholds == config.confidence_thresholds

ExactOf(description) == exact_match_compute(config, normalize_description(description))
FuzzyOf(description) == fuzzy_match_compute(config, normalize_description(description))
KeywordOf(description) == keyword_match(config, description)
PatternOf(description) == pattern_match(config, description)

AtLeast(result, threshold) == result # None /\ Geq(result.confidence, Rat(threshold))

FuzzyClears(d) == AtLeast(FuzzyOf(d), Thresholds.fuzzy_match_auto)
KeywordClears(d) == AtLeast(KeywordOf(d), Thresholds.keyword_match_auto)
PatternClears(d) == AtLeast(PatternOf(d), Thresholds.pattern_match_auto)

\* The last call was classify_operation on a description that is not empty
\* and that the exact layer does not match.
ClassifiedPastExact ==
    /\ last.op = "classify_operation"
    /\ ~Falsy(last.description)
    /\ ExactOf(last.description) = None

\* The indices of the exact_matches keys whose normalized form is that of d.
IdenticalKeys(d) ==
    {i \in 1..Len(Get(config.exact_matches, <<>>)) :
        normalize_description(Get(config.exact_matches, <<>>)[i].pattern)
            = normalize_description(d)}

\* What classify_operation returns on a matcher with this configuration and
\* empty caches.
UncachedResult(description) ==
    classify_operation(config, EmptyCache, EmptyCache, description).result

\* The pairs of a batch whose description classify_operation matches.
MatchedPairs(operations) ==
    {i \in 1..Len(operations) : UncachedResult(operations[i][2]) # None}

\* The position, among the suggestions, of the suggestion for matched pair i.
Rank(operations, i) == Cardinality({j \in MatchedPairs(operations) : j <= i})

(***************************************************************************)
(* C1: a description whose normalized form equals the normalized form of   *)
(* an exact_matches key is classified with method 'exact', confidence 100  *)
(* and the category of the first such key in configuration order, whatever *)
(* the other layers would return and whatever the caches hold.             *)
(***************************************************************************)
C1_ExactMatchWins ==
    (last.op = "classify_operation" /\ IdenticalKeys(last.description) # {}) =>
        /\ last.result.method = "exact"
        /\ RatEq(last.result.confidence, Rat(100))
        /\ last.result.type_name =
              Get(config.exact_matches, <<>>)[
                  CHOOSE i \in IdenticalKeys(last.description) :
                      \A j \in IdenticalKeys(last.description) : i <= j].type_name

\* classify_operation returned 'exact' for a description with two identical keys
\* of different categories, one that the fuzzy layer would match with another
\* category and whose fuzzy result a direct fuzzy_match call has cached.
C1_Witness ==
    /\ last.op = "classify_operation"
    /\ Cardinality(IdenticalKeys(last.description)) = 2
    /\ last.result.method = "exact"
    /\ last.result.type_name = "Food"
    /\ normalize_description(last.description) \in DOMAIN fuzzy_match_cache
    /\ FuzzyOf(last.description).type_name = "Healthcare"

(***************************************************************************)
(* C2: when the exact layer finds nothing, classify_operation returns the  *)
(* first of the fuzzy, keyword and pattern results, in that order, whose   *)
(* confidence is at least its own layer's auto threshold; a later layer's  *)
(* higher confidence does not change that.                                 *)
(***************************************************************************)
C2_FirstLayerThatClears ==
    ClassifiedPastExact =>
        /\ FuzzyClears(last.description) => last.result = FuzzyOf(last.description)
        /\ (~FuzzyClears(last.description) /\ KeywordClears(last.description))
              => last.result = KeywordOf(last.description)
        /\ (/\ ~FuzzyClears(last.description)
            /\ ~KeywordClears(last.description)
            /\ PatternClears(last.description))
              => last.result = PatternOf(last.description)

\* The fuzzy result was returned although the keyword and the pattern results
\* both clear their thresholds with a higher confidence.
C2_Witness ==
    /\ ClassifiedPastExact
    /\ FuzzyClears(last.description)
    /\ last.result.method = "fuzzy"
    /\ KeywordClears(last.description)
    /\ PatternClears(last.description)
    /\ Gt(KeywordOf(last.description).confidence, last.result.confidence)
    /\ Gt(PatternOf(last.description).confidence, last.result.confidence)

(***************************************************************************)
(* C3: the auto-accept boundary is inclusive.  A fuzzy result whose        *)
(* confidence equals fuzzy_match_auto is returned at the fuzzy auto-accept *)
(* step and is flagged should_auto_assign; one below fuzzy_match_auto is   *)
(* never returned at that step nor flagged, and is returned only when no   *)
(* keyword or pattern result clears its threshold and it is a candidate of *)
(* highest confidence.                                                     *)
(***************************************************************************)
C3_ClassifyBoundary ==
    (ClassifiedPastExact /\ FuzzyOf(last.description) # None) =>
        /\ RatEq(FuzzyOf(last.description).confidence, Rat(Thresholds.fuzzy_match_auto))
              => /\ last.returned_at = "fuzzy_auto"
                 /\ last.result = FuzzyOf(last.description)
                 /\ should_auto_assign(Thresholds, last.result)
        /\ ~Geq(FuzzyOf(last.description).confidence, Rat(Thresholds.fuzzy_match_auto))
              => /\ last.returned_at # "fuzzy_auto"
                 /\ last.result.method = "fuzzy"
                       => /\ ~should_auto_assign(Thresholds, last.result)
                          /\ last.result = FuzzyOf(last.description)
                          /\ ~KeywordClears(last.description)
                          /\ ~PatternClears(last.description)
                          /\ KeywordOf(last.description) # None =>
                                Geq(last.result.confidence,
                                    KeywordOf(last.description).confidence)
                          /\ PatternOf(last.description) # None =>
                                Geq(last.result.confidence,
                                    PatternOf(last.description).confidence)

\* The suggestion of pair i of the last batch.
SuggestionOf(i) == last.suggestions[Rank(last.operations, i)]

\* C3, for both operations: the boundary is inclusive in what classify_operation
\* returns (above) and in the should_auto_assign flag of the suggestions: a pair
\* whose fuzzy result is exactly at fuzzy_match_auto gets the fuzzy suggestion,
\* flagged; a fuzzy suggestion below fuzzy_match_auto is never flagged.
C3_InclusiveBoundary ==
    /\ C3_ClassifyBoundary
    /\ last.op = "get_classification_suggestions" =>
          \A i \in 1..Len(last.operations) :
              (/\ ExactOf(last.operations[i][2]) = None
               /\ FuzzyOf(last.operations[i][2]) # None) =>
                  /\ RatEq(FuzzyOf(last.operations[i][2]).confidence,
                           Rat(Thresholds.fuzzy_match_auto))
                        => /\ i \in MatchedPairs(last.operations)
                           /\ SuggestionOf(i).method = "fuzzy"
                           /\ SuggestionOf(i).confidence
                                 = FuzzyOf(last.operations[i][2]).confidence
                           /\ SuggestionOf(i).should_auto_assign
                  /\ ~Geq(FuzzyOf(last.operations[i][2]).confidence,
                          Rat(Thresholds.fuzzy_match_auto))
                        => /\ i \in MatchedPairs(last.operations)
                           /\ SuggestionOf(i).method = "fuzzy"
                                 => ~SuggestionOf(i).should_auto_assign

\* A batch with a description whose fuzzy result is exactly at fuzzy_match_auto
\* while its keyword result is higher: the suggestion is the fuzzy one, flagged.
C3_Witness ==
    /\ last.op = "get_classification_suggestions"
    /\ \E i \in MatchedPairs(last.operations) :
          /\ ExactOf(last.operations[i][2]) = None
          /\ SuggestionOf(i).method = "fuzzy"
          /\ RatEq(SuggestionOf(i).confidence, Rat(Thresholds.fuzzy_match_auto))
          /\ SuggestionOf(i).should_auto_assign
          /\ Gt(KeywordOf(last.operations[i][2]).confidence, SuggestionOf(i).confidence)

(***************************************************************************)
(* C4: when there is no exact match and no layer's result reaches its auto *)
(* threshold, classify_operation returns a candidate of maximal confidence *)
(* among the results the fuzzy, keyword and pattern layers produced, and   *)
(* no result exactly when none of the three produced a match.              *)
(***************************************************************************)
CandidatesOf(d) == {FuzzyOf(d), KeywordOf(d), PatternOf(d)} \ {None}

C4_BestCandidate ==
    (/\ ClassifiedPastExact
     /\ ~FuzzyClears(last.description)
     /\ ~KeywordClears(last.description)
     /\ ~PatternClears(last.description)) =>
        /\ (last.result = None) <=> (CandidatesOf(last.description) = {})
        /\ CandidatesOf(last.description) # {} =>
              /\ last.result \in CandidatesOf(last.description)
              /\ \A c \in CandidatesOf(last.description) :
                    Geq(last.result.confidence, c.confidence)

\* The fallback returned the keyword result, above a fuzzy and a pattern result.
C4_Witness ==
    /\ ClassifiedPastExact
    /\ last.returned_at = "best"
    /\ Cardinality(CandidatesOf(last.description)) = 3
    /\ last.result.method = "keyword"
    /\ Gt(last.result.confidence, FuzzyOf(last.description).confidence)

\* Two results agree: both are no result, or both carry the same category,
\* confidence and method.
SameResult(r1, r2) ==
    IF r1 = None \/ r2 = None THEN r1 = r2
    ELSE /\ r1.type_name = r2.type_name
         /\ RatEq(r1.confidence, r2.confidence)
         /\ r1.method = r2.method

(***************************************************************************)
(* C5: classification is idempotent on the normalized description: after  *)
(* a classify_operation call, a call with any description of the same      *)
(* normalized form returns a result of the same category, confidence and   *)
(* method, or both return no result.                                       *)
(***************************************************************************)
C5_IdempotentOnNormalized ==
    last.op = "classify_operation" =>
        \A d \in Descriptions :
            normalize_description(d) = normalize_description(last.description) =>
                SameResult(classify_operation(config, exact_match_cache,
                                              fuzzy_match_cache, d).result,
                           last.result)

(***************************************************************************)
(* C6: the caches are correctness-neutral: in every state reachable by     *)
(* classify_operation, exact_match, fuzzy_match and clear_caches calls,    *)
(* classify_operation returns for every description what a matcher with    *)
(* the same configuration and empty caches returns, and every cache entry  *)
(* equals what the uncached layer computes for its key.  (Every state of   *)
(* the caches occurs between two calls, where last = NoCall.)              *)
(***************************************************************************)
C6_CachesNeutral ==
    /\ last = NoCall =>
          \A d \in Descriptions :
              classify_operation(config, exact_match_cache, fuzzy_match_cache, d).result
                  = UncachedResult(d)
    /\ last.op = "classify_operation" => last.result = UncachedResult(last.description)
    /\ \A k \in DOMAIN exact_match_cache :
          exact_match_cache[k] = exact_match_compute(config, k)
    /\ \A k \in DOMAIN fuzzy_match_cache :
          fuzzy_match_cache[k] = fuzzy_match_compute(config, k)

\* classify_operation returned a keyword match while both caches hold, next to
\* the entry of its description, a match and a miss of other descriptions.
C6_Witness ==
    /\ last.op = "classify_operation"
    /\ last.result.method = "keyword"
    /\ normalize_description(last.description) \in DOMAIN exact_match_cache
    /\ normalize_description(last.description) \in DOMAIN fuzzy_match_cache
    /\ \E k \in DOMAIN exact_match_cache : exact_match_cache[k].method = "exact"
    /\ \E k \in DOMAIN fuzzy_match_cache :
          /\ k # normalize_description(last.description)
          /\ fuzzy_match_cache[k].method = "fuzzy"
    /\ \E k \in DOMAIN fuzzy_match_cache :
          /\ k # normalize_description(last.description)
          /\ fuzzy_match_cache[k] = None

(***************************************************************************)
(* C7: every suggestion get_classification_suggestions produces has        *)
(* should_auto_assign true if and only if its method is 'exact', or its    *)
(* method is 'fuzzy', 'keyword' or 'pattern' and its confidence is at      *)
(* least that method's configured auto threshold.                          *)
(***************************************************************************)
AutoThreshold(method) ==
    CASE method = "fuzzy" -> Thresholds.fuzzy_match_auto
      [] method = "keyword" -> Thresholds.keyword_match_auto
      [] method = "pattern" -> Thresholds.pattern_match_auto

C7_AutoAssignFlag ==
    last.op = "get_classification_suggestions" =>
        \A i \in 1..Len(last.suggestions) :
            last.suggestions[i].should_auto_assign <=>
                \/ last.suggestions[i].method = "exact"
                \/ /\ last.suggestions[i].method \in {"fuzzy", "keyword", "pattern"}
                   /\ Geq(last.suggestions[i].confidence,
                          Rat(AutoThreshold(last.suggestions[i].method)))

\* One batch produced a flagged exact suggestion and an unflagged keyword
\* suggestion, whose confidence is below keyword_match_auto.
C7_Witness ==
    /\ last.op = "get_classification_suggestions"
    /\ \E i \in 1..Len(last.suggestions) :
          /\ last.suggestions[i].should_auto_assign
          /\ last.suggestions[i].method = "exact"
    /\ \E i \in 1..Len(last.suggestions) :
          /\ ~last.suggestions[i].should_auto_assign
          /\ last.suggestions[i].method = "keyword"

(***************************************************************************)
(* C8: get_classification_suggestions returns exactly one suggestion for   *)
(* each input pair whose description classify_operation matches and none   *)
(* for the others, in the order of the input pairs, each carrying the id   *)
(* of its pair and the category, confidence and method classify_operation  *)
(* returns for that description.                                           *)
(***************************************************************************)
C8_OneSuggestionPerMatch ==
    last.op = "get_classification_suggestions" =>
        /\ Len(last.suggestions) = Cardinality(MatchedPairs(last.operations))
        /\ \A i \in MatchedPairs(last.operations) :
              /\ last.suggestions[Rank(last.operations, i)].operation_id
                    = last.operations[i][1]
              /\ last.suggestions[Rank(last.operations, i)].type_name
                    = UncachedResult(last.operations[i][2]).type_name
              /\ last.suggestions[Rank(last.operations, i)].confidence
                    = UncachedResult(last.operations[i][2]).confidence
              /\ last.suggestions[Rank(last.operations, i)].method
                    = UncachedResult(last.operations[i][2]).method

\* A batch whose first pair is not matched and whose second is: one suggestion,
\* with the second pair's id.
C8_Witness ==
    /\ last.op = "get_classification_suggestions"
    /\ Len(last.operations) = 2
    /\ MatchedPairs(last.operations) = {2}
    /\ Len(last.suggestions) = 1
    /\ last.suggestions[1].operation_id = last.operations[2][1]
    /\ last.suggestions[1].method = "keyword"

(***************************************************************************)
(* The last learn_from_correction call: the list of its category before    *)
(* and after, the entry it is to add, and whether the configuration lets   *)
(* it learn.                                                               *)
(***************************************************************************)

Learned == last.op = "learn_from_correction"

TrackSuccess ==
    /\ config.learning # <<>>
    /\ config.learning[1].track_success = <<TRUE>>

Accepted ==
    /\ Learned
    /\ TrackSuccess
    /\ last.user_confidence >= config.learning[1].min_confidence_for_learning

MaxLearned == Get(config.learning, [max_learned_patterns |-> 0]).max_learned_patterns

ListBefore == patterns_of(last.before, last.correct_type)
ListAfter == patterns_of(learned_patterns, last.correct_type)

NewEntry ==
    [pattern |-> normalize_description(last.description),
     confidence |-> last.user_confidence, count |-> 1]

OthersUnchanged ==
    /\ DOMAIN learned_patterns \ {last.correct_type} = DOMAIN last.before \ {last.correct_type}
    /\ \A t \in DOMAIN last.before \ {last.correct_type} : learned_patterns[t] = last.before[t]

\* Entry x ranks strictly above entry y by (confidence, count).
KeyAbove(x, y) ==
    \/ x.confidence > y.confidence
    \/ x.confidence = y.confidence /\ x.count > y.count

\* The place of list[i] in the descending order by (confidence, count) in which
\* entries of equal rank keep the order they have in the list.
Place(list, i) ==
    Cardinality({j \in 1..Len(list) :
        \/ KeyAbove(list[j], list[i])
        \/ ~KeyAbove(list[i], list[j]) /\ j <= i})

\* The first n entries of that order.
TopOf(list, n) ==
    [k \in 1..n |-> list[CHOOSE i \in 1..Len(list) : Place(list, i) = k]]

(***************************************************************************)
(* C9 as stated: learn_from_correction leaves the table unchanged when     *)
(* track_success is false or absent or the confidence is below the         *)
(* minimum; otherwise (the minimum included) the list of the given         *)
(* category gains one entry holding the normalized description, the given  *)
(* confidence and count 1, and no other category's list changes.           *)
(***************************************************************************)
C9_AddsOneEntry ==
    Learned =>
        IF Accepted
        THEN /\ ListAfter = Append(ListBefore, NewEntry)
             /\ OthersUnchanged
        ELSE learned_patterns = last.before

(***************************************************************************)
(* C9 amended: the no-op cases are as stated; otherwise the new entry is   *)
(* appended to the list of the given category and, when that makes the     *)
(* list longer than max_learned_patterns, the list becomes the first       *)
(* max_learned_patterns entries of its order by (confidence, count)        *)
(* descending with ties in list order, so the new entry is the one dropped *)
(* unless it ranks strictly above an entry already there; no other list    *)
(* changes.                                                                *)
(***************************************************************************)
C9_AppendsThenCaps ==
    Learned =>
        IF Accepted
        THEN /\ Len(ListBefore) < MaxLearned => ListAfter = Append(ListBefore, NewEntry)
             /\ Len(ListBefore) >= MaxLearned =>
                   /\ ListAfter = TopOf(Append(ListBefore, NewEntry), MaxLearned)
                   /\ (\A j \in 1..Len(ListBefore) : ~KeyAbove(NewEntry, ListBefore[j]))
                         => ListAfter = TopOf(ListBefore, MaxLearned)
             /\ OthersUnchanged
        ELSE learned_patterns = last.before

\* A call with the minimum confidence was accepted on a full list and pushed
\* out an entry of lower rank.
C9_Witness ==
    /\ Accepted
    /\ Len(ListBefore) = MaxLearned
    /\ MaxLearned = 2
    /\ ListAfter # ListBefore
    /\ \E i \in 1..Len(ListAfter) : ListAfter[i] = NewEntry
    /\ \E t \in DOMAIN last.before : t # last.correct_type /\ last.before[t] # <<>>

(***************************************************************************)
(* C10: after any sequence of learn_from_correction calls the              *)
(* learned-pattern list of every category holds at most                    *)
(* max_learned_patterns entries.                                           *)
(***************************************************************************)
C10_ListsWithinCap ==
    \A t \in DOMAIN learned_patterns : Len(learned_patterns[t]) <= MaxLearned

\* An accepted call on a list already at the cap left it at the cap.
C10_Witness ==
    /\ Accepted
    /\ Len(ListBefore) = MaxLearned
    /\ Len(ListAfter) = MaxLearned
    /\ \A t \in TypeNames : Len(patterns_of(learned_patterns, t)) = MaxLearned

(***************************************************************************)
(* C11: learned patterns influence no matching layer: classify_operation   *)
(* returns for a description what a matcher with the same configuration    *)
(* that never learned anything returns, whatever learn_from_correction     *)
(* calls came before, and a learn_from_correction call changes neither the *)
(* exact-match cache nor the fuzzy-match cache.                            *)
(***************************************************************************)
C11_LearningIsInert ==
    /\ [](last.op = "classify_operation" =>
             last.result = UncachedResult(last.description))
    /\ [][last'.op = "learn_from_correction" =>
             UNCHANGED <<exact_match_cache, fuzzy_match_cache>>]_vars

\* A description was classified after a correction of that very description
\* to another category had been learned; the classification is not the learned one.
C11_Witness ==
    /\ last.op = "classify_operation"
    /\ last.result # None
    /\ \E t \in DOMAIN learned_patterns :
          /\ t # last.result.type_name
          /\ \E i \in 1..Len(learned_patterns[t]) :
                learned_patterns[t][i].pattern = normalize_description(last.description)

(***************************************************************************)
(* C15                                                                     *)
(***************************************************************************)

KeywordGroups == Get(config.keyword_matches, <<>>)

\* The positions in group g of the keywords found, whatever their case, in the
\* normalized description d.
FoundIn(g, d) ==
    {k \in 1..Len(KeywordGroups[g].keywords) :
        Contains(normalize_description(d), upper(KeywordGroups[g].keywords[k]))}

MatchingGroups(d) == {g \in 1..Len(KeywordGroups) : FoundIn(g, d) # {}}

GroupScore(g, d) ==
    With(Get(KeywordGroups[g].weight, 70) + 5 * Cardinality(FoundIn(g, d)), LAMBDA score :
    IF score < 95 THEN score ELSE 95)

\* C15: keyword_match returns no result when no group has a keyword that is,
\* whatever its case, a substring of the normalized description; otherwise the
\* result has method 'keyword', names the first group of the highest score
\* min(weight + 5 x matched keywords, 95) and has that score as confidence.
C15_KeywordScore ==
    last.op = "keyword_match" =>
        IF MatchingGroups(last.description) = {}
        THEN last.result = None
        ELSE /\ last.result.method = "keyword"
             /\ \E g \in MatchingGroups(last.description) :
                    /\ \A h \in MatchingGroups(last.description) :
                           /\ GroupScore(h, last.description) <= GroupScore(g, last.description)
                           /\ h < g =>
                                GroupScore(h, last.description) < GroupScore(g, last.description)
                    /\ last.result.type_name =
                            Get(KeywordGroups[g].type, KeywordGroups[g].category)
                    /\ last.result.confidence = Rat(GroupScore(g, last.description))

\* A group of weight 90 with two keywords found scores 95, ahead of an earlier
\* matching group.
C15_Witness ==
    /\ last.op = "keyword_match"
    /\ last.result # None
    /\ last.result.confidence = Rat(95)
    /\ \E g \in MatchingGroups(last.description) :
          /\ g > 1
          /\ 1 \in MatchingGroups(last.description)
          /\ KeywordGroups[g].weight = <<90>>
          /\ Cardinality(FoundIn(g, last.description)) = 2
          /\ last.result.type_name = KeywordGroups[g].category

(***************************************************************************)
(* C16                                                                     *)
(***************************************************************************)

\* C16: classify_operation on None or on the empty string returns no result,
\* raises nothing and leaves both caches as they were.
C16_EmptyDescription ==
    [][(last'.op = "classify_operation" /\ last'.description \in {NoneDesc, <<>>}) =>
            /\ last'.result = None
            /\ last'.raised = ""
            /\ UNCHANGED <<exact_match_cache, fuzzy_match_cache>>]_vars

\* The empty string classified on a matcher that has keys (each of them
\* contains the empty string) and whose caches already hold entries.
C16_Witness ==
    /\ last.op = "classify_operation"
    /\ last.description = <<>>
    /\ last.result = None
    /\ Get(config.exact_matches, <<>>) # <<>>
    /\ exact_match_cache # EmptyCache
    /\ fuzzy_match_cache # EmptyCache
    /\ <<>> \notin DOMAIN exact_match_cache

(***************************************************************************)
(* C19                                                                     *)
(***************************************************************************)

ExactKeys == Get(config.exact_matches, <<>>)

\* The positions of the keys that, normalized, contain the normalized
\* description d or are contained in it.
OverlappingKeys(d) ==
    {i \in 1..Len(ExactKeys) :
        \/ Contains(normalize_description(d), normalize_description(ExactKeys[i].pattern))
        \/ Contains(normalize_description(ExactKeys[i].pattern), normalize_description(d))}

\* d has a normalized form, equal to no key but overlapping one.
OverlapsOnly(d) ==
    /\ normalize_description(d) # <<>>
    /\ IdenticalKeys(d) = {}
    /\ OverlappingKeys(d) # {}

FirstOverlappingKey(d) ==
    ExactKeys[CHOOSE i \in OverlappingKeys(d) : \A j \in OverlappingKeys(d) : i <= j]

IsOverlapResult(result, d) ==
    /\ result.method = "exact"
    /\ result.confidence = Rat(95)
    /\ result.type_name = FirstOverlappingKey(d).type_name

\* C19: for a description whose normalized form is not empty, equals no
\* normalized key but contains one or is contained in one, exact_match returns
\* method 'exact', confidence 95 and the category of the first such key in
\* configuration order; classify_operation returns that result at the exact
\* layer and the fuzzy cache keeps the entries it had.
C19_PartialExactMatch ==
    /\ [](last.op = "exact_match" /\ OverlapsOnly(last.description) =>
              IsOverlapResult(last.result, last.description))
    /\ [][(last'.op = "classify_operation" /\ OverlapsOnly(last'.description)) =>
              /\ IsOverlapResult(last'.result, last'.description)
              /\ last'.returned_at = "exact"
              /\ UNCHANGED fuzzy_match_cache]_vars

\* A description classified that contains the first two keys and lies inside
\* the third, on a matcher whose fuzzy cache has no entry for it.
C19_Witness ==
    /\ last.op = "classify_operation"
    /\ OverlapsOnly(last.description)
    /\ OverlappingKeys(last.description) = {1, 2, 3}
    /\ ~Contains(normalize_description(last.description),
                 normalize_description(ExactKeys[3].pattern))
    /\ ExactKeys[1].type_name # ExactKeys[2].type_name
    /\ last.result.type_name = ExactKeys[1].type_name
    /\ last.result.confidence = Rat(95)
    /\ normalize_description(last.description) \notin DOMAIN fuzzy_match_cache

(***************************************************************************)
(* C20                                                                     *)
(***************************************************************************)

MinSimilarity == Get(Get(config.fuzzy_matching, [min_similarity |-> <<>>]).min_similarity, 85)

\* The similarity of the normalized description d to the i-th key as configured.
SimilarityTo(i, d) == calculate_similarity(normalize_description(d), ExactKeys[i].pattern)

SimilarKeys(d) == {i \in 1..Len(ExactKeys) : Geq(SimilarityTo(i, d), Rat(MinSimilarity))}

\* result is what fuzzy_match is to compute for d: nothing when no key is
\* similar enough, else the most similar key (the first one among equals).
IsFuzzyOutcome(result, d) ==
    IF SimilarKeys(d) = {}
    THEN result = None
    ELSE /\ result.method = "fuzzy"
         /\ \E i \in SimilarKeys(d) :
                /\ \A j \in SimilarKeys(d) :
                       /\ Geq(SimilarityTo(i, d), SimilarityTo(j, d))
                       /\ j < i => Gt(SimilarityTo(i, d), SimilarityTo(j, d))
                /\ result.type_name = ExactKeys[i].type_name
                /\ result.confidence = SimilarityTo(i, d)

\* C20: fuzzy_match returns no result when no key reaches min_similarity
\* (85 when not configured) against the normalized description, otherwise the
\* category of the most similar key with method 'fuzzy' and the similarity as
\* confidence; the outcome, match or not, is in the fuzzy cache under the
\* normalized description afterwards, and a call that finds an entry there
\* returns it.
C20_FuzzyMatch ==
    /\ [](last.op = "fuzzy_match" =>
              /\ IsFuzzyOutcome(last.result, last.description)
              /\ normalize_description(last.description) \in DOMAIN fuzzy_match_cache
              /\ fuzzy_match_cache[normalize_description(last.description)] = last.result)
    /\ [][(/\ last'.op = "fuzzy_match"
            /\ normalize_description(last'.description) \in DOMAIN fuzzy_match_cache) =>
              /\ last'.result = fuzzy_match_cache[normalize_description(last'.description)]
              /\ UNCHANGED fuzzy_match_cache]_vars

\* With no min_similarity configured, a key less than identical to the
\* description but at least 85 similar is returned.
C20_Witness ==
    /\ last.op = "fuzzy_match"
    /\ config.fuzzy_matching = <<>>
    /\ last.result # None
    /\ Gt(Rat(100), last.result.confidence)
    /\ \E i \in 1..Len(ExactKeys) : ~Geq(SimilarityTo(i, last.description), Rat(85))

(***************************************************************************)
(* C18                                                                     *)
(***************************************************************************)

\* C18: at most one OperationsMatcher is ever installed; once one is, get_matcher
\* returns it, with its caches and learned patterns untouched, whatever
\* config_path it is given; while none is, a call whose configuration file is
\* missing raises FileNotFoundError and installs nothing, and a call whose file
\* exists installs the first instance loaded from that file.
C18_OneMatcherPerProcess ==
    /\ [](global_matcher <= 1)
    /\ [][last'.op = "get_matcher" =>
            IF global_matcher # 0
            THEN /\ last'.raised = ""
                 /\ last'.matcher = global_matcher
                 /\ UNCHANGED <<global_matcher, config, exact_match_cache,
                                fuzzy_match_cache, learned_patterns>>
            ELSE IF config_path_of(last'.config_path) \notin DOMAIN ConfigFiles
            THEN /\ last'.raised = "FileNotFoundError"
                 /\ global_matcher' = 0
            ELSE /\ last'.raised = ""
                 /\ last'.matcher = 1
                 /\ global_matcher' = 1
                 /\ config' = ConfigFiles[config_path_of(last'.config_path)]]_vars

\* get_matcher called with the path of a missing file after a matcher loaded
\* from another file has classified and learned: that matcher is returned.
C18_Witness ==
    /\ last.op = "get_matcher"
    /\ last.config_path = "nonexistent_config.yaml"
    /\ last.raised = ""
    /\ last.matcher = 1
    /\ global_matcher = 1
    /\ config = ConfigFiles[DefaultPath]
    /\ exact_match_cache # EmptyCache
    /\ learned_patterns # EmptyCache

(***************************************************************************)
(* The rows of a document as the properties of the extractor refer to      *)
(* them.  A row is told by at = <<p, t, r>>: row r (the header is row 1)   *)
(* of table t of page p, with the cells its roles point at.                *)
(***************************************************************************)

Extracted == last.op = "extract_card_operations" /\ last.raised = ""

\* The description cell is not empty once its line breaks and outer spaces
\* are gone, and the amount cell parses to a number.
Complete(description_cell, amount_cell) ==
    /\ description_cell # NoneStr
    /\ \E i \in 1..Len(description_cell) : ~IsSpace(description_cell[i])
    /\ parse_amount(amount_cell) # NoNumber

\* The data rows of table t of page p: none when the table has no data row
\* or is passed over for want of an amount label on a page without anchor.
RowsOfTable(tbl, p, t, anchored) ==
    IF Len(tbl) < 2 THEN {}
    ELSE With(column_map(tbl[1], anchored), LAMBDA roles :
         IF roles.skipped THEN {}
         ELSE {[at |-> <<p, t, r>>,
                date |-> cell_of(tbl[r], roles.date),
                processed |-> cell_of(tbl[r], roles.processed),
                description |-> cell_of(tbl[r], roles.description),
                amount |-> cell_of(tbl[r], roles.amount),
                complete |-> Complete(cell_of(tbl[r], roles.description),
                                      cell_of(tbl[r], roles.amount))] : r \in 2..Len(tbl)})

\* The data rows of the tables on the pages the table path looks at (the
\* anchored pages, every page when none is anchored), and the pages after
\* which it stops: anchored, with tables, and five complete rows counted up
\* to the page's end.
DataRows(doc) ==
    With([p \in 1..Len(doc) |-> has_card_anchor(doc[p].text)], LAMBDA anchored :
    With(IF \E p \in 1..Len(doc) : anchored[p]
         THEN {p \in 1..Len(doc) : anchored[p]}
         ELSE 1..Len(doc), LAMBDA candidates :
    With(UNION {UNION {RowsOfTable(doc[p].tables[t], p, t, anchored[p]) :
                       t \in 1..Len(doc[p].tables)} : p \in candidates}, LAMBDA rows :
    [rows |-> rows,
     stops |-> {p \in candidates :
                  /\ anchored[p]
                  /\ doc[p].tables # <<>>
                  /\ Cardinality({row \in rows : row.complete /\ row.at[1] <= p}) >= 5}])))

\* The rows of the tables the scan reaches.
ScannedRows(doc) ==
    With(DataRows(doc), LAMBDA data :
    {row \in data.rows : \A q \in data.stops : row.at[1] <= q})

\* Row c comes ahead of row d in page, table and row order.
Ahead(c, d) ==
    \/ c[1] < d[1]
    \/ c[1] = d[1] /\ c[2] < d[2]
    \/ c[1] = d[1] /\ c[2] = d[2] /\ c[3] < d[3]

\* The position of a row among the rows of a set, in that order.
PositionOf(rows, row) == 1 + Cardinality({other \in rows : Ahead(other.at, row.at)})

(***************************************************************************)
(* C12                                                                     *)
(***************************************************************************)

\* C12: every Operation extract_card_operations returns has a description
\* that is not empty and an amount that is not None; when the table path
\* yields the result, a data row of a scanned table has its Operation in the
\* result exactly when its description cell is not empty and its amount cell
\* parses: the complete rows each have one, with the row's description and
\* amount, and there are no other Operations.
C12_OnlyCompleteRows ==
    Extracted =>
        /\ \A i \in 1..Len(last.extracted) :
              /\ last.extracted[i].description # NoneStr
              /\ last.extracted[i].description # <<>>
              /\ last.extracted[i].amount_lei # NoNumber
        /\ With({row \in ScannedRows(last.document) : row.complete}, LAMBDA accepted :
           accepted # {} =>
              /\ Len(last.extracted) = Cardinality(accepted)
              /\ \A row \in accepted :
                    /\ last.extracted[PositionOf(accepted, row)].description
                          = normalize_cell(row.description)
                    /\ last.extracted[PositionOf(accepted, row)].amount_lei
                          = parse_amount(row.amount))

\* A table read with a complete row next to a row without amount and a row
\* whose description is blank.
C12_Witness ==
    /\ Extracted
    /\ Len(last.extracted) = 1
    /\ With(ScannedRows(last.document), LAMBDA scanned :
          /\ Cardinality({row \in scanned : row.complete}) = 1
          /\ \E row \in scanned :
                /\ row.description # NoneStr
                /\ strip(row.description) # <<>>
                /\ parse_amount(row.amount) = NoNumber
          /\ \E row \in scanned :
                /\ row.description # NoneStr
                /\ strip(row.description) = <<>>
                /\ parse_amount(row.amount) # NoNumber)

(***************************************************************************)
(* C13                                                                     *)
(***************************************************************************)

\* C13: when a table row was accepted the result is the records of the
\* accepted rows in page, table and row order, whatever the text holds; when
\* none was, the result is the records of the text lines in line order.
C13_FallbackOnlyWhenNoTableRecord ==
    Extracted =>
        With({row \in ScannedRows(last.document) : row.complete}, LAMBDA accepted :
        IF accepted # {}
        THEN /\ Len(last.extracted) = Cardinality(accepted)
             /\ \A row \in accepted :
                   last.extracted[PositionOf(accepted, row)]
                       = Operation(normalize_cell(row.date), normalize_cell(row.processed),
                                   normalize_cell(row.description), parse_amount(row.amount))
        ELSE last.extracted = operations_from_text(last.document))

\* One row accepted, from the second table of the second page, in a document
\* whose text lines would give records of their own.
C13_Witness ==
    /\ Extracted
    /\ Len(last.extracted) = 1
    /\ Len(last.document) = 2
    /\ {row.at : row \in {row \in ScannedRows(last.document) : row.complete}} = {<<2, 2, 2>>}
    /\ operations_from_text(last.document) # <<>>

(***************************************************************************)
(* C17                                                                     *)
(***************************************************************************)

\* C17: extract_card_operations and process_pdf raise only when pdfplumber is
\* not available.
C17_RaisesOnlyWithoutBackend ==
    (last.op \in {"extract_card_operations", "process_pdf"} /\ last.raised # "") =>
        ~pdfplumber

(***************************************************************************)
(* C14: for every optionally signed amount written in the comma-decimal or *)
(* the dot-decimal convention (two decimals behind ',' or '.', thousands   *)
(* separators '.', ',', space or non-breaking space other than the decimal *)
(* separator, or none) _normalize_number returns the amount's value: when  *)
(* both '.' and ',' occur the later one is the decimal point and the other *)
(* is discarded, and a lone ',' is the decimal point.  For None, empty,    *)
(* blank or unparseable input it returns None, and it never raises.        *)
(***************************************************************************)
ConventionalAmounts ==
    {a \in Amounts : \A g \in 1..Len(a.groups) : a.groups[g].sep # <<a.dec_sep>>}

RECURSIVE group_digits(_)
group_digits(groups) ==
    IF groups = <<>> THEN <<>> ELSE Head(groups).digits \o group_digits(Tail(groups))

\* The value of an amount: no head starts with 0 and no amount is zero.
ValueOf(a) ==
    [negative |-> a.sign = <<"-">>,
     int |-> a.head \o group_digits(a.groups),
     frac |-> IF a.decimals[2] # "0" THEN a.decimals
              ELSE IF a.decimals[1] # "0" THEN <<a.decimals[1]>> ELSE <<>>]

\* Text with a character no number has.
Unparseable(value) ==
    \E i \in 1..Len(value) :
        ~IsDigit(value[i]) /\ ~IsSpace(value[i]) /\ value[i] \notin {"+", "-", ".", ","}

PatternGroups == Get(config.pattern_matches, <<>>)

\* The positions in group g of the patterns that compile and are found,
\* whatever the case, in the normalized description d.
MatchedIn(g, d) ==
    {k \in 1..Len(PatternGroups[g].patterns) :
        /\ ~regex_error(PatternGroups[g].patterns[k])
        /\ regex_search(PatternGroups[g].patterns[k], normalize_description(d))}

PatternMatchingGroups(d) == {g \in 1..Len(PatternGroups) : MatchedIn(g, d) # {}}

PatternGroupScore(g, d) ==
    With(Get(PatternGroups[g].weight, 60) + 3 * Cardinality(MatchedIn(g, d)), LAMBDA score :
    IF score < 90 THEN score ELSE 90)

\* A group holds a pattern that does not compile ahead of one that matches d.
MatchesPastMalformed(g, d) ==
    \E j, k \in 1..Len(PatternGroups[g].patterns) :
        j < k /\ regex_error(PatternGroups[g].patterns[j]) /\ k \in MatchedIn(g, d)

\* C21: pattern_match does not fail on a pattern that does not compile: such a
\* pattern counts as not matching and the other patterns of every group are
\* still evaluated.  It returns no result when no pattern matches; otherwise
\* the result has method 'pattern', names the first group of the highest
\* score min(weight + 3 x matching patterns, 90), has that score as
\* confidence and lists the group's matching patterns.
C21_PatternMatch ==
    last.op = "pattern_match" =>
        /\ last.raised = ""
        /\ IF PatternMatchingGroups(last.description) = {}
           THEN last.result = None
           ELSE /\ last.result.method = "pattern"
                /\ \E g \in PatternMatchingGroups(last.description) :
                    /\ \A h \in PatternMatchingGroups(last.description) :
                         /\ PatternGroupScore(h, last.description)
                                <= PatternGroupScore(g, last.description)
                         /\ h < g => PatternGroupScore(h, last.description)
                                        < PatternGroupScore(g, last.description)
                    /\ last.result.type_name =
                            Get(PatternGroups[g].type, PatternGroups[g].category)
                    /\ last.result.confidence = Rat(PatternGroupScore(g, last.description))
                    /\ last.result.details.matched =
                            SelectSeq(PatternGroups[g].patterns, LAMBDA pattern :
                                \E k \in MatchedIn(g, last.description) :
                                    PatternGroups[g].patterns[k] = pattern)

\* 'axcd  k': the second group matches two patterns around one that does not
\* compile and scores 69, ahead of the first group's 66 reached the same way.
C21_Witness ==
    /\ last.op = "pattern_match"
    /\ config = Cfg6
    /\ last.description = <<"a", "x", "c", "d", " ", " ", "k">>
    /\ MatchesPastMalformed(1, last.description)
    /\ MatchesPastMalformed(2, last.description)
    /\ PatternGroupScore(1, last.description) = 66
    /\ last.result.type_name = "Transport"
    /\ last.result.confidence = Rat(69)
    /\ Len(last.result.details.matched) = 2

(***************************************************************************)
(* C22                                                                     *)
(***************************************************************************)

\* The list of the category once the new entry is appended, before the cap.
Appended == Append(ListBefore, NewEntry)

Times(list, e) == Cardinality({k \in 1..Len(list) : list[k] = e})

\* The oldest of the entries of the least confidence in the list.
OldestLeastConfident(list) ==
    CHOOSE i \in 1..Len(list) :
        /\ \A j \in 1..Len(list) : list[i].confidence <= list[j].confidence
        /\ \A j \in 1..(i - 1) : list[j].confidence > list[i].confidence

\* C22: when an accepted learn_from_correction call makes the list of its
\* category longer than max_learned_patterns, the list left holds the entries
\* in descending order of (confidence, count) without one entry of the least
\* confidence, the oldest of them when several have it, so that the new
\* entry is kept when it ties with older ones.
C22_EvictsOldestOfTheLeastConfident ==
    (Accepted /\ Len(Appended) > MaxLearned) =>
        /\ Len(ListAfter) = MaxLearned
        /\ \A a, b \in 1..Len(ListAfter) : a < b => ~KeyAbove(ListAfter[b], ListAfter[a])
        /\ \A k \in 1..Len(Appended) :
              Times(ListAfter, Appended[k]) =
                  Times(Appended, Appended[k])
                    - (IF Appended[k] = Appended[OldestLeastConfident(Appended)] THEN 1 ELSE 0)

(***************************************************************************)
(* C23                                                                     *)
(***************************************************************************)

\* The complete rows of the candidate pages up to the first page that is
\* anchored and has five or more complete rows of its own.
RowsUpToFullPage(doc) ==
    With(DataRows(doc), LAMBDA data :
    With({p \in 1..Len(doc) :
            /\ has_card_anchor(doc[p].text)
            /\ Cardinality({row \in data.rows : row.complete /\ row.at[1] = p}) >= 5},
         LAMBDA full :
    {row \in data.rows : row.complete /\ \A q \in full : row.at[1] <= q}))

\* C23: the table path scans the candidate pages in ascending order and stops
\* after a page exactly when the page is anchored and five or more of its
\* own rows were accepted: the result is the records of the accepted rows of
\* the candidate pages up to the first such page, in page order.
C23_StopsAfterFullAnchoredPage ==
    Extracted =>
        With(RowsUpToFullPage(last.document), LAMBDA reached :
        reached # {} =>
            /\ Len(last.extracted) = Cardinality(reached)
            /\ \A row \in reached :
                  /\ PositionOf(reached, row) <= Len(last.extracted)
                  /\ last.extracted[PositionOf(reached, row)].description
                        = normalize_cell(row.description))

(***************************************************************************)
(* C24                                                                     *)
(***************************************************************************)

\* The document without what its failing pages hold.
SkippingBroken(doc, broken) ==
    [p \in 1..Len(doc) |->
        IF p \in broken.tables \cup broken.text THEN [text |-> <<>>, tables |-> <<>>]
        ELSE doc[p]]

\* C24: when pdfplumber fails on the tables or the text of a page,
\* extract_card_operations raises nothing, passes over that page and returns
\* the records of the other pages it scans.
C24_FailingPageIsSkipped ==
    (/\ last.op = "extract_card_operations"
     /\ last.path_exists
     /\ pdfplumber
     /\ last.broken # NoBroken) =>
        /\ last.raised = ""
        /\ With({row \in ScannedRows(SkippingBroken(last.document, last.broken)) :
                    row.complete}, LAMBDA accepted :
           accepted # {} =>
              /\ Len(last.extracted) = Cardinality(accepted)
              /\ \A row \in accepted :
                    last.extracted[PositionOf(accepted, row)].description
                        = normalize_cell(row.description))

(***************************************************************************)
(* C25                                                                     *)
(***************************************************************************)

AllReturned == \A t \in Threads : running[t].pc = "done"

\* The table the call of thread t leaves when it runs alone on a table.
LearnedAlone(learned, t) ==
    learn_from_correction(config, learned, running[t].description,
                          running[t].correct_type, running[t].user_confidence)

\* The tables the calls of the two threads leave when one runs after the other.
SequentialTables ==
    {LearnedAlone(LearnedAlone(last.before, first), second) :
        <<first, second>> \in {<<1, 2>>, <<2, 1>>}}

\* C25: when the threads have returned from learn_from_correction calls whose
\* steps (append, length check, sort, truncate and reassign) were interleaved,
\* the learned-pattern table is the one some sequential order of the calls
\* leaves, and no list is longer than max_learned_patterns.
C25_LearningIsSerializable ==
    (last.op = "threads.learn_from_correction" /\ AllReturned) =>
        /\ learned_patterns \in SequentialTables
        /\ \A c \in DOMAIN learned_patterns : Len(learned_patterns[c]) <= MaxLearned

(***************************************************************************)
(* C26                                                                     *)
(***************************************************************************)

\* C26: a classify_operation call that ran on the shared matcher next to other
\* classify_operation and clear_caches calls, its cache membership tests, cache
\* reads and cache inserts interleaved with their steps, has raised nothing
\* and returns what it returns when it runs alone.
C26_ClassifyIsSafeNextToClear ==
    \A t \in Threads :
        running[t].op = "classify_operation" /\ running[t].pc = "done"
            => /\ running[t].raised = ""
               /\ running[t].result = UncachedResult(running[t].description)

(***************************************************************************)
(* C27                                                                     *)
(***************************************************************************)

\* the fields the claim lets the hash depend on
KeyFields(row) == <<row.transaction_date, row.description, row.amount_lei>>

\* C27: whatever was stored by calls of store_operations_with_deduplication
\* with skip_duplicates=True, no two operation rows share an operation_hash;
\* the hash depends on transaction_date, description and amount_lei only, so no
\* two rows agree on these three fields either, whatever their processed_date;
\* and the stored and skipped counts a call returns sum to the number of
\* operations it was given.
C27_HashesStayUnique ==
    /\ \A i, j \in 1..Len(operation_rows) :
          i # j => /\ operation_rows[i].operation_hash # operation_rows[j].operation_hash
                   /\ KeyFields(operation_rows[i]) # KeyFields(operation_rows[j])
    /\ last.op = "store_operations_with_deduplication"
          => last.stored_count + last.skipped_count = Len(last.operations)

\* A call whose batch holds two operations that differ in processed_date only
\* has stored one of them and skipped the other, next to rows of another PDF.
C27_Witness ==
    /\ last.op = "store_operations_with_deduplication"
    /\ last.stored_count = 1 /\ last.skipped_count = 1
    /\ KeyFields(last.operations[1]) = KeyFields(last.operations[2])
    /\ last.operations[1].processed_date # last.operations[2].processed_date
    /\ \E i \in 1..Len(operation_rows) : operation_rows[i].pdf_id # last.pdf_id

(***************************************************************************)
(* C28                                                                     *)
(***************************************************************************)

\* C28: exact_match and classify_operation return no result for a description
\* whose normalized form is the empty string, a description made of
\* whitespace only included.
C28_EmptyNormalizedHasNoResult ==
    /\ last.op \in {"exact_match", "classify_operation"}
    /\ normalize_description(last.description) = <<>>
    => last.result = None

(***************************************************************************)
(* C29                                                                     *)
(***************************************************************************)

\* the step of classify_operation at which the description's result is returned
ReturnedAt(description) ==
    classify_operation(config, EmptyCache, EmptyCache, description).returned_at

AutoAcceptSteps == {"exact", "fuzzy_auto", "keyword_auto", "pattern_auto"}

\* C29: for every suggestion of get_classification_suggestions,
\* should_auto_assign is true exactly when classify_operation returned the
\* result at the exact step or at the auto-accept step of a layer, and false
\* exactly when the result came from the best-candidate fallback.
C29_FallbackIsNeverAutoAssigned ==
    last.op = "get_classification_suggestions" =>
        /\ Len(last.suggestions) = Cardinality(MatchedPairs(last.operations))
        /\ \A i \in MatchedPairs(last.operations) :
              /\ last.suggestions[Rank(last.operations, i)].should_auto_assign
                    <=> ReturnedAt(last.operations[i][2]) \in AutoAcceptSteps
              /\ ~last.suggestions[Rank(last.operations, i)].should_auto_assign
                    <=> ReturnedAt(last.operations[i][2]) = "best"

\* One batch produced an unflagged suggestion that came from the fallback and
\* a flagged one that an auto-accept step returned.
C29_Witness ==
    /\ last.op = "get_classification_suggestions"
    /\ \E i \in MatchedPairs(last.operations) :
          /\ ReturnedAt(last.operations[i][2]) = "best"
          /\ ~last.suggestions[Rank(last.operations, i)].should_auto_assign
    /\ \E i \in MatchedPairs(last.operations) :
          /\ ReturnedAt(last.operations[i][2]) \in AutoAcceptSteps
          /\ last.suggestions[Rank(last.operations, i)].should_auto_assign

(***************************************************************************)
(* C30                                                                     *)
(***************************************************************************)

\* the headers of the tables extract_card_operations detects column roles
\* for, each with the anchor flag of its page
DetectedHeaders(document) ==
    UNION {{<<document[p].tables[t][1], has_card_anchor(document[p].text)>> :
               t \in {u \in 1..Len(document[p].tables) : Len(document[p].tables[u]) >= 2}} :
           p \in 1..Len(document)}

\* C30: for every table header extract_card_operations reads rows under, the
\* description role and the amount role are assigned to different columns, or
\* the description role is left unassigned.
C30_DescriptionAndAmountColumnsDiffer ==
    last.op = "extract_card_operations" /\ last.raised = "" =>
        \A h \in DetectedHeaders(last.document) :
            \/ column_map(h[1], h[2]).skipped
            \/ column_map(h[1], h[2]).description = <<>>
            \/ column_map(h[1], h[2]).description # column_map(h[1], h[2]).amount

====
